---- MODULE Spec2Model ----
(***************************************************************************)
(* The index store of jcodemunch_mcp (storage/index_store.py): one JSON    *)
(* manifest {owner}-{name}.json plus a mirror directory {owner}-{name}/ of *)
(* the indexed files, with save_index, load_index, get_symbol_content,     *)
(* detect_changes and incremental_save.                                    *)
(*                                                                         *)
(* Text is a sequence of code points, file content a sequence of bytes.    *)
(* SHA-256 is idealised as a collision-free function of the hashed bytes.  *)
(***************************************************************************)
EXTENDS Integers, Sequences, FiniteSets, TLC

VARIABLES
    fs,       \* base directory: manifest path / temp path -> file (or None)
    mirror,   \* content directory of the repo: relative path -> bytes (or None)
    last,     \* the last completed call of the store API: operation, inputs, result
    lineage,  \* how the manifest on disk came about (see Lineages)
    w,        \* a save_index / incremental_save call in progress, step by step
    r,        \* a get_symbol_content call in progress, step by step
    base,     \* base directory of a store of several repos: path -> file (or None)
    dirs,     \* its content directories: directory -> mirror (or None if absent)
    out       \* the last call on that store: operation, arguments, result

vars == <<fs, mirror, last, lineage, w, r, base, dirs, out>>

(***************************************************************************)
(* Values                                                                  *)
(***************************************************************************)

\* Python's None / an optional value
None == <<>>
Some(x) == <<x>>

\* The one repository the store is driven with
Owner == "local"
Name == "repo"

\* Relative paths of the indexed files, and their ascending order (sorted())
PathOrder == <<"a.py", "b.py">>
Paths == {PathOrder[i] : i \in DOMAIN PathOrder}

\* File texts: "f", "g" (102, 103) start a declaration, U+00E9 (233) is a
\* two-byte filler, so byte offsets differ from character offsets.
Contents == {<<102, 233>>, <<233, 102>>, <<103, 102>>}

\* dict path -> text, for every subset of the paths
FileMaps == UNION {[D -> Contents] : D \in SUBSET Paths}

\* datetime.now().isoformat() of the calls, the languages count the callers
\* pass (every file is a Python file) and the git_head they pass (the default)
Now == "t1"
LanguagesOf(paths) == [l \in IF paths = {} THEN {} ELSE {"python"} |-> Cardinality(paths)]
GitHead == ""

\* The ways a manifest on disk came about:
\*   "none"      nothing saved yet
\*   "saved"     save_index that hashed its own raw files, then only
\*               detect_changes + incremental_save rounds
\*   "detected"  as "saved", but the save_index was passed file_hashes or not
\*               the content of every source file, or another program
\*               version rewrote the manifest since
Lineages == {"none", "saved", "detected"}

(***************************************************************************)
(* Encoding                                                                *)
(***************************************************************************)

\* str.encode("utf-8") of one code point (no surrogates in Contents)
EncodeChar(c) ==
    IF c < 128 THEN <<c>>
    ELSE IF c < 2048 THEN <<192 + (c \div 64), 128 + (c % 64)>>
    ELSE IF c < 65536 THEN
        <<224 + (c \div 4096), 128 + ((c \div 64) % 64), 128 + (c % 64)>>
    ELSE <<240 + (c \div 262144), 128 + ((c \div 4096) % 64),
           128 + ((c \div 64) % 64), 128 + (c % 64)>>

RECURSIVE Encode(_)
Encode(text) ==
    IF text = <<>> THEN <<>>
    ELSE EncodeChar(Head(text)) \o Encode(Tail(text))

\* bytes.decode("utf-8", errors="replace"): every maximal invalid subpart
\* becomes one U+FFFD (65533)
RECURSIVE Decode(_)
Decode(b) ==
    IF b = <<>> THEN <<>>
    ELSE LET n == Len(b)
             b1 == b[1]
             Cont(i) == i <= n /\ b[i] >= 128 /\ b[i] <= 191
             Rest(k) == Decode(SubSeq(b, k, n))
             Second(lo, hi) == n >= 2 /\ b[2] >= lo /\ b[2] <= hi
             lo2 == IF b1 = 224 THEN 160 ELSE IF b1 = 240 THEN 144 ELSE 128
             hi2 == IF b1 = 237 THEN 159 ELSE IF b1 = 244 THEN 143 ELSE 191
         IN  IF b1 < 128 THEN <<b1>> \o Rest(2)
             ELSE IF b1 >= 194 /\ b1 <= 223 THEN
                 IF Cont(2)
                 THEN <<(b1 - 192) * 64 + (b[2] - 128)>> \o Rest(3)
                 ELSE <<65533>> \o Rest(2)
             ELSE IF b1 >= 224 /\ b1 <= 239 THEN
                 IF ~Second(lo2, hi2) THEN <<65533>> \o Rest(2)
                 ELSE IF ~Cont(3) THEN <<65533>> \o Rest(3)
                 ELSE <<(b1 - 224) * 4096 + (b[2] - 128) * 64 + (b[3] - 128)>>
                      \o Rest(4)
             ELSE IF b1 >= 240 /\ b1 <= 244 THEN
                 IF ~Second(lo2, hi2) THEN <<65533>> \o Rest(2)
                 ELSE IF ~Cont(3) THEN <<65533>> \o Rest(3)
                 ELSE IF ~Cont(4) THEN <<65533>> \o Rest(4)
                 ELSE <<(b1 - 240) * 262144 + (b[2] - 128) * 4096
                        + (b[3] - 128) * 64 + (b[4] - 128)>> \o Rest(5)
             ELSE <<65533>> \o Rest(2)

\* hashlib.sha256(bytes).hexdigest(), collision-free
Sha256(bytes) == [sha256 |-> bytes]

\* _file_hash
FileHash(content) == Sha256(Encode(content))

\* compute_content_hash
compute_content_hash(source_bytes) == Sha256(source_bytes)

(***************************************************************************)
(* Symbols                                                                 *)
(***************************************************************************)

make_symbol_id(file_path, qualified_name, kind) ==
    IF kind # ""
    THEN file_path \o "::" \o qualified_name \o "#" \o kind
    ELSE file_path \o "::" \o qualified_name

IsDecl(c) == c \in {102, 103}
DeclName(c) == IF c = 102 THEN "f" ELSE "g"

\* Last character of the declaration that starts at position i: it runs up
\* to the character before the next declaration.
RECURSIVE DeclEnd(_, _)
DeclEnd(content, i) ==
    IF i < Len(content) /\ ~IsDecl(content[i + 1])
    THEN DeclEnd(content, i + 1)
    ELSE i

\* The declaration that encloses the one at position i: the nearest one
\* before it in the file, if any (0 if none)
RECURSIVE DeclBefore(_, _)
DeclBefore(content, i) ==
    IF i <= 1 THEN 0
    ELSE IF IsDecl(content[i - 1]) THEN i - 1
    ELSE DeclBefore(content, i - 1)

\* The symbol record of the declaration at position i of the file
SymbolAt(file, content, i) ==
    LET bytes == Encode(content)
        off == Len(Encode(SubSeq(content, 1, i - 1)))
        len == Len(Encode(SubSeq(content, i, DeclEnd(content, i))))
        up == DeclBefore(content, i)
    IN  [id |-> make_symbol_id(file, DeclName(content[i]), "function"),
         file |-> file,
         name |-> DeclName(content[i]),
         qualified_name |-> DeclName(content[i]),
         kind |-> "function",
         language |-> "python",
         signature |-> "def " \o DeclName(content[i]),
         docstring |-> "",
         summary |-> "",
         decorators |-> <<>>,
         keywords |-> <<DeclName(content[i])>>,
         parent |-> IF up = 0 THEN None
                    ELSE Some(make_symbol_id(file, DeclName(content[up]), "function")),
         line |-> 1,
         end_line |-> 1,
         byte_offset |-> off,
         byte_length |-> len,
         content_hash |-> compute_content_hash(SubSeq(bytes, off + 1, off + len))]

\* The walk of parse_file: the symbols of one file, in source order, each
\* with its computed id
RECURSIVE ParseFrom(_, _, _)
ParseFrom(file, content, i) ==
    IF i > Len(content) THEN <<>>
    ELSE IF IsDecl(content[i])
         THEN <<SymbolAt(file, content, i)>> \o ParseFrom(file, content, i + 1)
         ELSE ParseFrom(file, content, i + 1)

\* The positions of a walk whose symbol has the same computed id as the one
\* at position i, up to position n
SameIdUpTo(symbols, i, n) == {j \in 1..n : symbols[j].id = symbols[i].id}

\* Mutant: the first of a group keeps the bare id, the others count from 1
DisambiguateLaterOnly(symbols) ==
    [i \in DOMAIN symbols |->
        IF Cardinality(SameIdUpTo(symbols, i, i)) > 1
        THEN [symbols[i] EXCEPT
                 !.id = @ \o "~" \o ToString(Cardinality(SameIdUpTo(symbols, i, i)) - 1)]
        ELSE symbols[i]]

\* After the full walk: the symbols of a group of more than one that computed
\* the same id get "~1", "~2", ... in walk order; the parent, computed
\* during the walk, stays as it is
Disambiguate(symbols) ==
    [i \in DOMAIN symbols |->
        IF Cardinality(SameIdUpTo(symbols, i, Len(symbols))) > 1
        THEN [symbols[i] EXCEPT
                 !.id = @ \o "~" \o ToString(Cardinality(SameIdUpTo(symbols, i, i)))]
        ELSE symbols[i]]

Parse(file, content) == Disambiguate(ParseFrom(file, content, 1))

\* The symbols of the files of a dict, file after file in the order given
RECURSIVE ParseAll(_, _)
ParseAll(order, files) ==
    IF order = <<>> THEN <<>>
    ELSE Parse(Head(order), files[Head(order)]) \o ParseAll(Tail(order), files)

\* The sequences that list every element of S once (list(set), dict order)
RECURSIVE ListsOf(_)
ListsOf(S) ==
    IF S = {} THEN {<<>>}
    ELSE UNION {{<<x>> \o l : l \in ListsOf(S \ {x})} : x \in S}

SetOf(list) == {list[i] : i \in DOMAIN list}

\* sorted(set of paths)
Sorted(S) == SelectSeq(PathOrder, LAMBDA p : p \in S)

(***************************************************************************)
(* Files of the base directory                                             *)
(***************************************************************************)

\* the schema version this program writes and the newest it reads
INDEX_VERSION == 2

\* _index_path
IndexPath(owner, name) == owner \o "-" \o name \o ".json"

\* _content_dir
ContentDir(owner, name) == owner \o "-" \o name

\* Mutant: the manifest is written in place, not to a sibling temp file
TmpPathInPlace(owner, name) == IndexPath(owner, name)

\* index_path.with_suffix(".json.tmp")
TmpPath(owner, name) == owner \o "-" \o name \o ".json.tmp"

BasePaths == {IndexPath(Owner, Name), TmpPath(Owner, Name)}

\* A JSON file while json.dump is still writing it, and once it is written
Partial == [complete |-> FALSE]
Full(doc) == [complete |-> TRUE, data |-> doc]

\* open(path, "w"): creates the file or truncates it in place
OpenW(fsys, path) == [fsys EXCEPT ![path] = Some(Partial)]

\* json.dump(doc, f) through to the close of the file
Dump(fsys, path, doc) == [fsys EXCEPT ![path] = Some(Full(doc))]

\* Mutant: a rename that gives up when the target exists
ReplaceNoClobber(fsys, src, dst) ==
    IF src = dst \/ fsys[dst] # None THEN fsys
    ELSE [fsys EXCEPT ![dst] = fsys[src], ![src] = None]

\* Path.replace: an atomic rename over the target
Replace(fsys, src, dst) ==
    IF src = dst THEN fsys
    ELSE [fsys EXCEPT ![dst] = fsys[src], ![src] = None]

\* json.load: a file that is not a whole JSON text raises
JsonLoad(file) ==
    IF file.complete THEN [ok |-> TRUE, data |-> file.data] ELSE [ok |-> FALSE]

\* dict.get(key, default)
Get(d, key, default) == IF key \in DOMAIN d THEN d[key] ELSE default

\* the dict without some keys
Without(d, keys) == [k \in DOMAIN d \ keys |-> d[k]]

(***************************************************************************)
(* CodeIndex and its JSON form                                             *)
(***************************************************************************)

_symbol_to_dict(symbol) ==
    [id |-> symbol.id,
     file |-> symbol.file,
     name |-> symbol.name,
     qualified_name |-> symbol.qualified_name,
     kind |-> symbol.kind,
     language |-> symbol.language,
     signature |-> symbol.signature,
     docstring |-> symbol.docstring,
     summary |-> symbol.summary,
     decorators |-> symbol.decorators,
     keywords |-> symbol.keywords,
     parent |-> symbol.parent,
     line |-> symbol.line,
     end_line |-> symbol.end_line,
     byte_offset |-> symbol.byte_offset,
     byte_length |-> symbol.byte_length,
     content_hash |-> symbol.content_hash]

SymbolDicts(symbols) == [i \in DOMAIN symbols |-> _symbol_to_dict(symbols[i])]

\* Mutant: the manifest is written without git_head
_index_to_dict_no_git_head(index) ==
    [repo |-> index.repo,
     owner |-> index.owner,
     name |-> index.name,
     indexed_at |-> index.indexed_at,
     source_files |-> index.source_files,
     languages |-> index.languages,
     symbols |-> index.symbols,
     index_version |-> index.index_version,
     file_hashes |-> index.file_hashes]

\* IndexStore._index_to_dict
_index_to_dict(index) ==
    [repo |-> index.repo,
     owner |-> index.owner,
     name |-> index.name,
     indexed_at |-> index.indexed_at,
     source_files |-> index.source_files,
     languages |-> index.languages,
     symbols |-> index.symbols,
     index_version |-> index.index_version,
     file_hashes |-> index.file_hashes,
     git_head |-> index.git_head]

\* CodeIndex.get_symbol: the first symbol with the id
get_symbol(index, symbol_id) ==
    LET hits == SelectSeq(index.symbols, LAMBDA s : s.id = symbol_id)
    IN  IF hits = <<>> THEN None ELSE Some(Head(hits))

\* The keys load_index reads with data[...]: a manifest without one of them
\* raises KeyError
RequiredKeys == {"repo", "owner", "name", "indexed_at", "source_files",
                 "languages", "symbols"}

\* Mutant: the version gate also refuses the current version (>= for >)
load_index_refuse_current(fsys, owner, name) ==
    LET f == fsys[IndexPath(owner, name)]
    IN  IF f = None THEN [tag |-> "none"]
        ELSE LET j == JsonLoad(f[1])
             IN  IF ~j.ok THEN [tag |-> "raised"]
                 ELSE LET data == j.data
                          stored_version == Get(data, "index_version", 1)
                      IN  IF stored_version >= INDEX_VERSION
                          THEN [tag |-> "none"]
                          ELSE IF ~(RequiredKeys \subseteq DOMAIN data)
                          THEN [tag |-> "raised"]
                          ELSE [tag |-> "ok",
                                index |->
                                  [repo |-> data.repo,
                                   owner |-> data.owner,
                                   name |-> data.name,
                                   indexed_at |-> data.indexed_at,
                                   source_files |-> data.source_files,
                                   languages |-> data.languages,
                                   symbols |-> data.symbols,
                                   index_version |-> stored_version,
                                   file_hashes |-> Get(data, "file_hashes", <<>>),
                                   git_head |-> Get(data, "git_head", "")]]

\* load_index: "none" is Python's None, "raised" an exception of json.load
\* or of a data[...] lookup
load_index(fsys, owner, name) ==
    LET f == fsys[IndexPath(owner, name)]
    IN  IF f = None THEN [tag |-> "none"]
        ELSE LET j == JsonLoad(f[1])
             IN  IF ~j.ok THEN [tag |-> "raised"]
                 ELSE LET data == j.data
                          stored_version == Get(data, "index_version", 1)
                      IN  IF stored_version > INDEX_VERSION
                          THEN [tag |-> "none"]
                          ELSE IF ~(RequiredKeys \subseteq DOMAIN data)
                          THEN [tag |-> "raised"]
                          ELSE [tag |-> "ok",
                                index |->
                                  [repo |-> data.repo,
                                   owner |-> data.owner,
                                   name |-> data.name,
                                   indexed_at |-> data.indexed_at,
                                   source_files |-> data.source_files,
                                   languages |-> data.languages,
                                   symbols |-> data.symbols,
                                   index_version |-> stored_version,
                                   file_hashes |-> Get(data, "file_hashes", <<>>),
                                   git_head |-> Get(data, "git_head", "")]]

(***************************************************************************)
(* save_index                                                              *)
(***************************************************************************)

\* The CodeIndex save_index builds; file_hashes is None or Some(dict)
SaveIndexBuild(owner, name, source_files, symbols, raw_files, languages, file_hashes, git_head, now) ==
    [repo |-> owner \o "/" \o name,
     owner |-> owner,
     name |-> name,
     indexed_at |-> now,
     source_files |-> source_files,
     languages |-> languages,
     symbols |-> SymbolDicts(symbols),
     index_version |-> INDEX_VERSION,
     file_hashes |->
        IF file_hashes = None
        THEN [fp \in DOMAIN raw_files |-> FileHash(raw_files[fp])]
        ELSE file_hashes[1],
     git_head |-> git_head]

\* Mutant: files already in the mirror are not rewritten
WriteRawSkipExisting(mir, raw_files) ==
    [p \in Paths |->
        IF p \in DOMAIN raw_files /\ mir[p] = None
        THEN Some(Encode(raw_files[p])) ELSE mir[p]]

\* "Save raw files": every file of raw_files is written, nothing is removed
WriteRaw(mir, raw_files) ==
    [p \in Paths |->
        IF p \in DOMAIN raw_files THEN Some(Encode(raw_files[p])) ELSE mir[p]]

\* The manifest is written to the temp path and renamed over the index path
SaveManifest(fsys, owner, name, index) ==
    Replace(Dump(OpenW(fsys, TmpPath(owner, name)), TmpPath(owner, name),
                 _index_to_dict(index)),
            TmpPath(owner, name), IndexPath(owner, name))

(***************************************************************************)
(* get_symbol_content                                                      *)
(***************************************************************************)

\* f.seek(offset); f.read(length): short at the end of the file
ReadAt(bytes, offset, length) ==
    SubSeq(bytes, offset + 1,
           IF offset + length < Len(bytes) THEN offset + length ELSE Len(bytes))

get_symbol_content(fsys, mir, owner, name, symbol_id) ==
    LET l == load_index(fsys, owner, name)
    IN  IF l.tag # "ok" THEN [tag |-> l.tag]
        ELSE LET symbol == get_symbol(l.index, symbol_id)
             IN  IF symbol = None THEN [tag |-> "none"]
                 ELSE IF mir[symbol[1].file] = None THEN [tag |-> "none"]
                 ELSE [tag |-> "ok",
                       text |-> Decode(ReadAt(mir[symbol[1].file][1],
                                              symbol[1].byte_offset,
                                              symbol[1].byte_length))]

(***************************************************************************)
(* detect_changes and incremental_save                                     *)
(***************************************************************************)

\* Mutant: a file counts as changed when its hash is the same (== for !=)
detect_changes_same_hash(fsys, owner, name, current_files) ==
    LET l == load_index(fsys, owner, name)
    IN  IF l.tag = "raised" THEN [tag |-> "raised"]
        ELSE IF l.tag # "ok"
        THEN [tag |-> "ok", changed |-> {}, new |-> DOMAIN current_files,
              deleted |-> {}]
        ELSE LET old_hashes == l.index.file_hashes
                 current_hashes ==
                     [fp \in DOMAIN current_files |-> FileHash(current_files[fp])]
                 old_set == DOMAIN old_hashes
                 new_set == DOMAIN current_hashes
             IN  [tag |-> "ok",
                  changed |-> {fp \in old_set \cap new_set :
                                  old_hashes[fp] = current_hashes[fp]},
                  new |-> new_set \ old_set,
                  deleted |-> old_set \ new_set]

\* The three results as sets; the code returns each as a list(set), which
\* lists every element once. An exception of load_index is not caught
\* ("raised").
detect_changes(fsys, owner, name, current_files) ==
    LET l == load_index(fsys, owner, name)
    IN  IF l.tag = "raised" THEN [tag |-> "raised"]
        ELSE IF l.tag # "ok"
        THEN [tag |-> "ok", changed |-> {}, new |-> DOMAIN current_files,
              deleted |-> {}]
        ELSE LET old_hashes == l.index.file_hashes
                 current_hashes ==
                     [fp \in DOMAIN current_files |-> FileHash(current_files[fp])]
                 old_set == DOMAIN old_hashes
                 new_set == DOMAIN current_hashes
             IN  [tag |-> "ok",
                  changed |-> {fp \in old_set \cap new_set :
                                  old_hashes[fp] # current_hashes[fp]},
                  new |-> new_set \ old_set,
                  deleted |-> old_set \ new_set]

\* Mutant: only the symbols of deleted files are dropped
IncrementalBuildKeepChanged(index, owner, name, changed_files, new_files, deleted_files, new_symbols, raw_files, languages, git_head, now) ==
    LET kept_symbols ==
            SelectSeq(index.symbols, LAMBDA s : s.file \notin deleted_files)
        old_files ==
            ((SetOf(index.source_files) \ deleted_files) \cup new_files)
                \cup changed_files
        popped == Without(index.file_hashes, deleted_files)
        file_hashes ==
            [fp \in DOMAIN popped \cup DOMAIN raw_files |->
                IF fp \in DOMAIN raw_files
                THEN FileHash(raw_files[fp]) ELSE popped[fp]]
    IN  [repo |-> owner \o "/" \o name,
         owner |-> owner,
         name |-> name,
         indexed_at |-> now,
         source_files |-> Sorted(old_files),
         languages |-> languages,
         symbols |-> kept_symbols \o SymbolDicts(new_symbols),
         index_version |-> INDEX_VERSION,
         file_hashes |-> file_hashes,
         git_head |-> git_head]

\* The CodeIndex incremental_save builds from the loaded one
IncrementalBuild(index, owner, name, changed_files, new_files, deleted_files, new_symbols, raw_files, languages, git_head, now) ==
    LET files_to_remove == deleted_files \cup changed_files
        kept_symbols ==
            SelectSeq(index.symbols, LAMBDA s : s.file \notin files_to_remove)
        old_files ==
            ((SetOf(index.source_files) \ deleted_files) \cup new_files)
                \cup changed_files
        popped == Without(index.file_hashes, deleted_files)
        file_hashes ==
            [fp \in DOMAIN popped \cup DOMAIN raw_files |->
                IF fp \in DOMAIN raw_files
                THEN FileHash(raw_files[fp]) ELSE popped[fp]]
    IN  [repo |-> owner \o "/" \o name,
         owner |-> owner,
         name |-> name,
         indexed_at |-> now,
         source_files |-> Sorted(old_files),
         languages |-> languages,
         symbols |-> kept_symbols \o SymbolDicts(new_symbols),
         index_version |-> INDEX_VERSION,
         file_hashes |-> file_hashes,
         git_head |-> git_head]

\* Mutant: the deleted files stay in the mirror
IncrementalMirrorKeepDeleted(mir, deleted_files, raw_files) ==
    WriteRaw(mir, raw_files)

\* "Update raw files": deleted files are unlinked, raw_files are written
IncrementalMirror(mir, deleted_files, raw_files) ==
    WriteRaw([p \in Paths |-> IF p \in deleted_files THEN None ELSE mir[p]],
             raw_files)

(***************************************************************************)
(* A store of several repos: base directory and content directories        *)
(***************************************************************************)

\* The (owner, name) pairs the store is driven with: two owners of a repo of
\* the same name
RepoKeys == {<<"local", "repo">>, <<"acme", "repo">>}
Owners == {k[1] : k \in RepoKeys}
Names == {k[2] : k \in RepoKeys}

\* "{owner}/{name}", and the stems "{owner}-{name}" of the store's files
RepoLabel(owner, name) == owner \o "/" \o name
Stems == {ContentDir(k[1], k[2]) : k \in RepoKeys}

\* The files that may exist in the base directory
StorePaths ==
    UNION {{IndexPath(k[1], k[2]), TmpPath(k[1], k[2])} : k \in RepoKeys}

\* An empty base directory (IndexStore.__init__ creates it)
StoreEmpty ==
    /\ base = [p \in StorePaths |-> None]
    /\ dirs = [d \in Stems |-> None]
    /\ out = [op |-> "none"]

\* content_dir.mkdir(parents=True, exist_ok=True)
MkDir(ds, d) ==
    IF ds[d] = None THEN [ds EXCEPT ![d] = Some([p \in Paths |-> None])] ELSE ds

\* The files under a content directory; none when the directory is absent
MirrorOf(ds, owner, name) ==
    IF ds[ContentDir(owner, name)] = None THEN [p \in Paths |-> None]
    ELSE ds[ContentDir(owner, name)][1]

\* save_index as a whole: the manifest is replaced, the content directory is
\* made and the raw files are written; returns the CodeIndex
save_index(fsys, ds, owner, name, source_files, symbols, raw_files, languages, file_hashes, git_head, now) ==
    LET index == SaveIndexBuild(owner, name, source_files, symbols, raw_files,
                                languages, file_hashes, git_head, now)
        d == ContentDir(owner, name)
        made == MkDir(ds, d)
    IN  [fsys |-> SaveManifest(fsys, owner, name, index),
         ds |-> [made EXCEPT ![d] = Some(WriteRaw(made[d][1], raw_files))],
         tag |-> "ok",
         index |-> index]

\* Mutant: the update goes on from an empty index when none can be loaded
incremental_save_from_nothing(fsys, ds, owner, name, changed_files, new_files, deleted_files, new_symbols, raw_files, languages, git_head, now) ==
    LET l == load_index(fsys, owner, name)
        d == ContentDir(owner, name)
        made == MkDir(ds, d)
        prior == IF l.tag = "ok" THEN l.index
                 ELSE [source_files |-> <<>>, symbols |-> <<>>, file_hashes |-> <<>>]
        updated == IncrementalBuild(prior, owner, name, changed_files,
                                    new_files, deleted_files, new_symbols,
                                    raw_files, languages, git_head, now)
    IN  [fsys |-> SaveManifest(fsys, owner, name, updated),
         ds |-> [made EXCEPT ![d] =
                    Some(IncrementalMirror(made[d][1], deleted_files, raw_files))],
         tag |-> "ok",
         index |-> updated]

\* incremental_save as a whole: None ("none") without a loadable index, else
\* the manifest is replaced and the content directory updated
incremental_save(fsys, ds, owner, name, changed_files, new_files, deleted_files, new_symbols, raw_files, languages, git_head, now) ==
    LET l == load_index(fsys, owner, name)
        d == ContentDir(owner, name)
        made == MkDir(ds, d)
    IN  IF l.tag # "ok" THEN [fsys |-> fsys, ds |-> ds, tag |-> l.tag]
        ELSE LET updated == IncrementalBuild(l.index, owner, name, changed_files,
                                             new_files, deleted_files, new_symbols,
                                             raw_files, languages, git_head, now)
             IN  [fsys |-> SaveManifest(fsys, owner, name, updated),
                  ds |-> [made EXCEPT ![d] =
                             Some(IncrementalMirror(made[d][1], deleted_files,
                                                    raw_files))],
                  tag |-> "ok",
                  index |-> updated]

\* Mutant: only the manifest is removed, the content directory stays
delete_index_manifest_only(fsys, ds, owner, name) ==
    [fsys |-> [fsys EXCEPT ![IndexPath(owner, name)] = None],
     ds |-> ds,
     ret |-> fsys[IndexPath(owner, name)] # None]

\* delete_index: unlink the manifest, rmtree the content directory
delete_index(fsys, ds, owner, name) ==
    [fsys |-> [fsys EXCEPT ![IndexPath(owner, name)] = None],
     ds |-> [ds EXCEPT ![ContentDir(owner, name)] = None],
     ret |-> fsys[IndexPath(owner, name)] # None
             \/ ds[ContentDir(owner, name)] # None]

\* base_path.glob("*.json") over a listing of the directory: the existing
\* files whose name ends in ".json"
GlobJson(fsys, listing) ==
    SelectSeq(listing,
              LAMBDA p : fsys[p] # None /\ \E stem \in Stems : p = stem \o ".json")

\* The keys list_repos reads with data[...]
ListKeys == {"repo", "indexed_at", "symbols", "source_files", "languages"}

\* One entry of list_repos
RepoEntry(data) ==
    [repo |-> data.repo,
     indexed_at |-> data.indexed_at,
     symbol_count |-> Len(data.symbols),
     file_count |-> Len(data.source_files),
     languages |-> data.languages,
     index_version |-> Get(data, "index_version", 1)]

\* The body of the loop of list_repos for one file: its entry, or nothing
\* when json.load or a lookup raised (except Exception: continue)
EntryOf(file) ==
    LET j == JsonLoad(file)
    IN  IF j.ok /\ ListKeys \subseteq DOMAIN j.data
        THEN <<RepoEntry(j.data)>> ELSE <<>>

\* Mutant: the glob also takes the temporary files ("*.json*")
list_repos_any_suffix(fsys, listing) ==
    LET RECURSIVE Entries(_)
        Entries(files) ==
            IF files = <<>> THEN <<>>
            ELSE EntryOf(fsys[Head(files)][1]) \o Entries(Tail(files))
    IN  Entries(SelectSeq(listing, LAMBDA p : fsys[p] # None))

\* list_repos, the directory being listed in the order `listing`
list_repos(fsys, listing) ==
    LET RECURSIVE Entries(_)
        Entries(files) ==
            IF files = <<>> THEN <<>>
            ELSE EntryOf(fsys[Head(files)][1]) \o Entries(Tail(files))
    IN  Entries(GlobJson(fsys, listing))

(***************************************************************************)
(* The calls of the store API, each run to completion                      *)
(***************************************************************************)

Init ==
    /\ fs = [p \in BasePaths |-> None]
    /\ mirror = [p \in Paths |-> None]
    /\ last = [op |-> "none"]
    /\ lineage = "none"
    /\ w = [pc |-> "idle"]
    /\ r = [pc |-> "idle"]
    /\ StoreEmpty

\* The manifest file a call finds: none, one of a newer schema, or a readable one
PriorState(fsys) ==
    LET f == fsys[IndexPath(Owner, Name)]
    IN  IF f = None THEN "absent"
        ELSE IF Get(f[1].data, "index_version", 1) > INDEX_VERSION THEN "future"
        ELSE "loadable"

\* The arguments of a save_index call: the files are listed in some order,
\* parsed in that order and passed whole; hashed is None (as
\* tools/index_folder.py and the tests call it), or the files whose hash the
\* caller passes in file_hashes.
SaveArgs ==
    UNION {UNION {{[files |-> files, order |-> order, hashed |-> hashed] :
                     hashed \in {None} \cup
                                {Some(H) : H \in (SUBSET DOMAIN files) \ {DOMAIN files}}} :
                  order \in ListsOf(DOMAIN files)} :
           files \in FileMaps}

\* save_index(owner, name, source_files, symbols, raw_files, languages,
\* file_hashes)
SaveIndex(a) ==
    LET file_hashes ==
            IF a.hashed = None THEN None
            ELSE Some([fp \in a.hashed[1] |-> FileHash(a.files[fp])])
        index == SaveIndexBuild(Owner, Name, a.order, ParseAll(a.order, a.files),
                                a.files, LanguagesOf(DOMAIN a.files), file_hashes,
                                GitHead, Now)
    IN  /\ fs' = SaveManifest(fs, Owner, Name, index)
        /\ mirror' = WriteRaw(mirror, a.files)
        /\ last' = [op |-> "save_index", files |-> a.files, ret |-> Some(index),
                    prior |-> PriorState(fs)]
        /\ lineage' = IF a.hashed = None THEN "saved" ELSE "detected"

\* A reindexing round: detect_changes on the current files, then
\* incremental_save(owner, name, changed_files, new_files, deleted_files,
\* new_symbols, raw_files, languages) with that delta and the changed and new
\* files, re-parsed in ascending order
Reindex(files) ==
    LET d == detect_changes(fs, Owner, Name, files)
        touched == d.changed \cup d.new
        raw_files == [fp \in touched |-> files[fp]]
        l == load_index(fs, Owner, Name)
    IN  IF l.tag # "ok"
        THEN /\ last' = [op |-> "reindex", files |-> files, delta |-> d,
                         ret |-> None, prior |-> PriorState(fs)]
             /\ UNCHANGED <<fs, mirror, lineage>>
        ELSE LET updated ==
                     IncrementalBuild(l.index, Owner, Name, d.changed, d.new,
                                      d.deleted, ParseAll(Sorted(touched), raw_files),
                                      raw_files, LanguagesOf(DOMAIN files), GitHead,
                                      Now)
             IN  /\ fs' = SaveManifest(fs, Owner, Name, updated)
                 /\ mirror' = IncrementalMirror(mirror, d.deleted, raw_files)
                 /\ last' = [op |-> "reindex", files |-> files, delta |-> d,
                             ret |-> Some(updated), prior |-> PriorState(fs)]
                 /\ UNCHANGED lineage

\* Manifest layouts of other program versions: a newer schema, the version-1
\* schema (no file_hashes), and a manifest without index_version
ForeignKinds == {"future", "version1", "unversioned"}

ForeignDoc(data, kind) ==
    IF kind = "future" THEN [data EXCEPT !.index_version = INDEX_VERSION + 1]
    ELSE IF kind = "version1"
    THEN [Without(data, {"file_hashes"}) EXCEPT !.index_version = 1]
    ELSE Without(data, {"file_hashes", "index_version"})

\* The manifest of the repo is one that another program version wrote: what
\* save_index wrote, in that version's layout (tests/test_hardening.py patches
\* index_version this way)
ForeignManifest(kind) ==
    LET f == fs[IndexPath(Owner, Name)]
    IN  /\ last.op = "save_index"
        /\ lineage = "saved"
        /\ fs' = [fs EXCEPT ![IndexPath(Owner, Name)] =
                      Some(Full(ForeignDoc(f[1].data, kind)))]
        /\ last' = [op |-> "foreign", kind |-> kind]
        /\ lineage' = "detected"
        /\ UNCHANGED mirror

Next ==
    \/ \E a \in SaveArgs : SaveIndex(a) /\ UNCHANGED <<w, r, base, dirs, out>>
    \/ \E files \in FileMaps : Reindex(files) /\ UNCHANGED <<w, r, base, dirs, out>>
    \/ \E kind \in ForeignKinds :
            ForeignManifest(kind) /\ UNCHANGED <<w, r, base, dirs, out>>

Spec == Init /\ [][Next]_vars

(***************************************************************************)
(* One writer call and one get_symbol_content call, statement by statement *)
(***************************************************************************)

\* The files the racing calls work on
RaceFileMaps ==
    {files \in FileMaps :
        /\ "a.py" \in DOMAIN files => files["a.py"] \in {<<102, 233>>, <<233, 102>>}
        /\ "b.py" \in DOMAIN files => files["b.py"] = <<103, 102>>}

\* The symbol ids a reader may ask for
SymbolIds == {make_symbol_id(p, n, "function") : p \in Paths, n \in {"f", "g"}}

\* The store is empty, or holds what one save_index of some files left
RaceInit ==
    /\ \/ /\ fs = [p \in BasePaths |-> None]
          /\ mirror = [p \in Paths |-> None]
          /\ lineage = "none"
       \/ \E files \in RaceFileMaps :
            /\ fs = SaveManifest([p \in BasePaths |-> None], Owner, Name,
                                 SaveIndexBuild(Owner, Name, Sorted(DOMAIN files),
                                                ParseAll(Sorted(DOMAIN files), files),
                                                files, LanguagesOf(DOMAIN files),
                                                None, GitHead, Now))
            /\ mirror = WriteRaw([p \in Paths |-> None], files)
            /\ lineage = "saved"
    /\ last = [op |-> "none"]
    /\ w = [pc |-> "idle"]
    /\ r = [pc |-> "idle"]
    /\ StoreEmpty

\* save_index is entered: the CodeIndex is built (lines 183-199)
WSaveBegin(files) ==
    /\ w.pc = "idle"
    /\ w' = [pc |-> "open", op |-> "save_index",
             index |-> SaveIndexBuild(Owner, Name, Sorted(DOMAIN files),
                                      ParseAll(Sorted(DOMAIN files), files),
                                      files, LanguagesOf(DOMAIN files), None,
                                      GitHead, Now),
             supplied |-> SymbolDicts(ParseAll(Sorted(DOMAIN files), files)),
             raw_files |-> files, deleted |-> {},
             written |-> {}, unlinked |-> {}, renamed |-> FALSE,
             before |-> fs[IndexPath(Owner, Name)]]
    /\ UNCHANGED <<fs, mirror, last, lineage, r>>

\* incremental_save is entered with the delta of detect_changes: the prior
\* index is loaded and the updated one built (lines 340-379)
WIncrementalBegin(files) ==
    LET d == detect_changes(fs, Owner, Name, files)
        touched == d.changed \cup d.new
        raw_files == [fp \in touched |-> files[fp]]
        new_symbols == ParseAll(Sorted(touched), raw_files)
        l == load_index(fs, Owner, Name)
    IN  /\ w.pc = "idle"
        /\ w' = IF l.tag # "ok"
                THEN [pc |-> "done", op |-> "incremental_save", ret |-> None,
                      renamed |-> FALSE, before |-> fs[IndexPath(Owner, Name)]]
                ELSE [pc |-> "open", op |-> "incremental_save",
                      index |-> IncrementalBuild(l.index, Owner, Name, d.changed,
                                                 d.new, d.deleted, new_symbols,
                                                 raw_files, LanguagesOf(DOMAIN files),
                                                 GitHead, Now),
                      supplied |-> SymbolDicts(new_symbols),
                      raw_files |-> raw_files, deleted |-> d.deleted,
                      written |-> {}, unlinked |-> {}, renamed |-> FALSE,
                      before |-> fs[IndexPath(Owner, Name)]]
        /\ UNCHANGED <<fs, mirror, last, lineage, r>>

\* with open(tmp_path, "w", encoding="utf-8") as f:
WOpenTmp ==
    /\ w.pc = "open"
    /\ fs' = OpenW(fs, TmpPath(Owner, Name))
    /\ w' = [w EXCEPT !.pc = "dump"]
    /\ UNCHANGED <<mirror, last, lineage, r>>

\* json.dump(self._index_to_dict(index), f, indent=2)
WDump ==
    /\ w.pc = "dump"
    /\ fs' = Dump(fs, TmpPath(Owner, Name), _index_to_dict(w.index))
    /\ w' = [w EXCEPT !.pc = "rename"]
    /\ UNCHANGED <<mirror, last, lineage, r>>

\* tmp_path.replace(index_path); a reader that has the old file open keeps it
WRename ==
    /\ w.pc = "rename"
    /\ fs' = Replace(fs, TmpPath(Owner, Name), IndexPath(Owner, Name))
    /\ w' = [w EXCEPT !.pc = "mirror", !.renamed = TRUE]
    /\ r' = IF r.pc = "opened" /\ r.fd = "attached"
               /\ TmpPath(Owner, Name) # IndexPath(Owner, Name)
            THEN [r EXCEPT !.fd = "detached", !.file = fs[IndexPath(Owner, Name)]]
            ELSE r
    /\ UNCHANGED <<mirror, last, lineage>>

\* dead.unlink(), for one file of deleted_files
WUnlink(fp) ==
    /\ w.pc = "mirror"
    /\ fp \in w.deleted \ w.unlinked
    /\ mirror' = IncrementalMirror(mirror, {fp}, <<>>)
    /\ w' = [w EXCEPT !.unlinked = @ \cup {fp}]
    /\ UNCHANGED <<fs, last, lineage, r>>

\* f.write(content), for one file of raw_files, once the deleted ones are gone
WWrite(fp) ==
    /\ w.pc = "mirror"
    /\ w.unlinked = w.deleted
    /\ fp \in DOMAIN w.raw_files \ w.written
    /\ mirror' = WriteRaw(mirror, [p \in {fp} |-> w.raw_files[p]])
    /\ w' = [w EXCEPT !.written = @ \cup {fp}]
    /\ UNCHANGED <<fs, last, lineage, r>>

\* return index
WReturn ==
    /\ w.pc = "mirror"
    /\ w.unlinked = w.deleted
    /\ w.written = DOMAIN w.raw_files
    /\ w' = [w EXCEPT !.pc = "done"]
    /\ UNCHANGED <<fs, mirror, last, lineage, r>>

\* get_symbol_content is entered; load_index tests index_path.exists() and
\* opens the file
ROpen(symbol_id) ==
    /\ r.pc = "idle"
    /\ r' = IF fs[IndexPath(Owner, Name)] = None
            THEN [pc |-> "done", id |-> symbol_id, loaded |-> [tag |-> "none"],
                  result |-> [tag |-> "none"], w_at_load |-> w.pc,
                  w_at_read |-> w.pc, detached |-> FALSE]
            ELSE [pc |-> "opened", id |-> symbol_id, fd |-> "attached",
                  file |-> None]
    /\ UNCHANGED <<fs, mirror, last, lineage, w>>

\* json.load(f) on the open file and the rest of load_index, then
\* index.get_symbol(symbol_id)
RLoad ==
    LET file == IF r.fd = "attached" THEN fs[IndexPath(Owner, Name)] ELSE r.file
        l == load_index([p \in BasePaths |-> file], Owner, Name)
        symbol == IF l.tag = "ok" THEN get_symbol(l.index, r.id) ELSE None
    IN  /\ r.pc = "opened"
        /\ r' = IF symbol = None
                THEN [pc |-> "done", id |-> r.id, loaded |-> l,
                      result |-> [tag |-> IF l.tag = "ok" THEN "none" ELSE l.tag],
                      w_at_load |-> w.pc, w_at_read |-> w.pc,
                      detached |-> r.fd = "detached"]
                ELSE [pc |-> "read", id |-> r.id, loaded |-> l,
                      symbol |-> symbol[1], w_at_load |-> w.pc,
                      detached |-> r.fd = "detached"]
        /\ UNCHANGED <<fs, mirror, last, lineage, w>>

\* file_path.exists(), then seek, read and decode
RRead ==
    /\ r.pc = "read"
    /\ r' = IF mirror[r.symbol.file] = None
            THEN [pc |-> "done", id |-> r.id, loaded |-> r.loaded,
                  result |-> [tag |-> "none"], w_at_load |-> r.w_at_load,
                  w_at_read |-> w.pc, detached |-> r.detached]
            ELSE LET bytes == ReadAt(mirror[r.symbol.file][1],
                                     r.symbol.byte_offset, r.symbol.byte_length)
                 IN  [pc |-> "done", id |-> r.id, loaded |-> r.loaded,
                      symbol |-> r.symbol, bytes |-> bytes,
                      result |-> [tag |-> "ok", text |-> Decode(bytes)],
                      w_at_load |-> r.w_at_load, w_at_read |-> w.pc,
                      detached |-> r.detached]
    /\ UNCHANGED <<fs, mirror, last, lineage, w>>

RaceNext ==
    \/ \E files \in RaceFileMaps : WSaveBegin(files) /\ UNCHANGED <<base, dirs, out>>
    \/ \E files \in RaceFileMaps :
            WIncrementalBegin(files) /\ UNCHANGED <<base, dirs, out>>
    \/ WOpenTmp /\ UNCHANGED <<base, dirs, out>>
    \/ WDump /\ UNCHANGED <<base, dirs, out>>
    \/ WRename /\ UNCHANGED <<base, dirs, out>>
    \/ \E fp \in Paths : WUnlink(fp) /\ UNCHANGED <<base, dirs, out>>
    \/ \E fp \in Paths : WWrite(fp) /\ UNCHANGED <<base, dirs, out>>
    \/ WReturn /\ UNCHANGED <<base, dirs, out>>
    \/ \E symbol_id \in SymbolIds : ROpen(symbol_id) /\ UNCHANGED <<base, dirs, out>>
    \/ RLoad /\ UNCHANGED <<base, dirs, out>>
    \/ RRead /\ UNCHANGED <<base, dirs, out>>

SpecRace == RaceInit /\ [][RaceNext]_vars

(***************************************************************************)
(* The query tools (tools/*.py)                                            *)
(***************************************************************************)

\* A repo argument: "owner/name" is [owner, name], a bare name is [name]
RepoArgs ==
    {[owner |-> k[1], name |-> k[2]] : k \in RepoKeys}
        \cup {[name |-> n] : n \in Names \cup {"lib"}}

\* owner, name = label.split("/", 1)
SplitLabel(label) == CHOOSE k \in Owners \X Names : RepoLabel(k[1], k[2]) = label

\* label.endswith(f"/{repo}")
EndsWithName(label, name) == \E o \in Owners : label = o \o "/" \o name

\* A tool that returned a dict, and one that raised
Returned(value) == [raised |-> FALSE, value |-> value]
Raised == [raised |-> TRUE]

\* time.perf_counter() differences are not modelled: timing_ms is 0
Meta == [timing_ms |-> 0]

\* _parse_repo, and the same lines at the head of search_symbols, search_text,
\* get_repo_outline and invalidate_cache
_parse_repo(fsys, listing, repo) ==
    IF "owner" \in DOMAIN repo
    THEN [ok |-> TRUE, owner |-> repo.owner, name |-> repo.name]
    ELSE LET repos == list_repos(fsys, listing)
             matching == SelectSeq(repos, LAMBDA e : EndsWithName(e.repo, repo.name))
         IN  IF matching = <<>>
             THEN [ok |-> FALSE,
                   error |-> [error |-> "Repository not found: " \o repo.name]]
             ELSE [ok |-> TRUE,
                   owner |-> SplitLabel(matching[1].repo)[1],
                   name |-> SplitLabel(matching[1].repo)[2]]

\* The head of every query tool: resolve the repo, then store.load_index
OpenRepo(fsys, listing, repo) ==
    LET pr == _parse_repo(fsys, listing, repo)
    IN  IF ~pr.ok THEN [tag |-> "error", response |-> Returned(pr.error)]
        ELSE LET l == load_index(fsys, pr.owner, pr.name)
             IN  IF l.tag = "raised" THEN [tag |-> "error", response |-> Raised]
                 ELSE IF l.tag = "none"
                 THEN [tag |-> "error",
                       response |->
                         Returned([error |-> "Repository not indexed: "
                                             \o RepoLabel(pr.owner, pr.name)])]
                 ELSE [tag |-> "ok", owner |-> pr.owner, name |-> pr.name,
                       index |-> l.index]

\* The dict get_symbol and get_symbols build for one symbol; source is the
\* text or None
SymbolPayload(symbol, source) ==
    [id |-> symbol.id,
     kind |-> symbol.kind,
     name |-> symbol.name,
     file |-> symbol.file,
     line |-> symbol.line,
     end_line |-> symbol.end_line,
     signature |-> symbol.signature,
     decorators |-> Get(symbol, "decorators", <<>>),
     docstring |-> Get(symbol, "docstring", ""),
     content_hash |-> Get(symbol, "content_hash", ""),
     source |-> IF source = None THEN <<>> ELSE source[1]]

\* store.get_symbol_content as the tools use it: the text or None
SourceOf(fsys, ds, owner, name, symbol_id) ==
    LET c == get_symbol_content(fsys, MirrorOf(ds, owner, name), owner, name, symbol_id)
    IN  IF c.tag = "ok" THEN Some(c.text) ELSE None

\* tools/get_symbol.py get_symbol (context_lines = 0)
tool_get_symbol(fsys, ds, listing, repo, symbol_id, verify) ==
    LET o == OpenRepo(fsys, listing, repo)
    IN  IF o.tag # "ok" THEN o.response
        ELSE LET symbol == get_symbol(o.index, symbol_id)
                 source == SourceOf(fsys, ds, o.owner, o.name, symbol_id)
             IN  IF symbol = None
                 THEN Returned([error |-> "Symbol not found: " \o symbol_id])
                 ELSE LET payload == SymbolPayload(symbol[1], source)
                          stored_hash == Get(symbol[1], "content_hash", "")
                          verified == Sha256(Encode(payload.source)) = stored_hash
                          meta == IF verify /\ payload.source # <<>>
                                  THEN [timing_ms |-> 0, content_verified |-> verified]
                                  ELSE Meta
                      IN  Returned([id |-> payload.id,
                                    kind |-> payload.kind,
                                    name |-> payload.name,
                                    file |-> payload.file,
                                    line |-> payload.line,
                                    end_line |-> payload.end_line,
                                    signature |-> payload.signature,
                                    decorators |-> payload.decorators,
                                    docstring |-> payload.docstring,
                                    content_hash |-> payload.content_hash,
                                    source |-> payload.source,
                                    _meta |-> meta])

\* Mutant: symbol_count counts the requested ids
tool_get_symbols_count_requests(fsys, ds, listing, repo, symbol_ids) ==
    LET o == OpenRepo(fsys, listing, repo)
        RECURSIVE Found(_)
        Found(ids) ==
            IF ids = <<>> THEN <<>>
            ELSE LET symbol == get_symbol(o.index, Head(ids))
                 IN  (IF symbol = None THEN <<>>
                      ELSE <<SymbolPayload(symbol[1],
                                           SourceOf(fsys, ds, o.owner, o.name,
                                                    Head(ids)))>>)
                     \o Found(Tail(ids))
        RECURSIVE Missing(_)
        Missing(ids) ==
            IF ids = <<>> THEN <<>>
            ELSE (IF get_symbol(o.index, Head(ids)) = None
                  THEN <<[id |-> Head(ids),
                          error |-> "Symbol not found: " \o Head(ids)]>>
                  ELSE <<>>)
                 \o Missing(Tail(ids))
    IN  IF o.tag # "ok" THEN o.response
        ELSE Returned([symbols |-> Found(symbol_ids),
                       errors |-> Missing(symbol_ids),
                       _meta |-> [timing_ms |-> 0,
                                  symbol_count |-> Len(symbol_ids)]])

\* tools/get_symbol.py get_symbols
tool_get_symbols(fsys, ds, listing, repo, symbol_ids) ==
    LET o == OpenRepo(fsys, listing, repo)
        RECURSIVE Found(_)
        Found(ids) ==
            IF ids = <<>> THEN <<>>
            ELSE LET symbol == get_symbol(o.index, Head(ids))
                 IN  (IF symbol = None THEN <<>>
                      ELSE <<SymbolPayload(symbol[1],
                                           SourceOf(fsys, ds, o.owner, o.name,
                                                    Head(ids)))>>)
                     \o Found(Tail(ids))
        RECURSIVE Missing(_)
        Missing(ids) ==
            IF ids = <<>> THEN <<>>
            ELSE (IF get_symbol(o.index, Head(ids)) = None
                  THEN <<[id |-> Head(ids),
                          error |-> "Symbol not found: " \o Head(ids)]>>
                  ELSE <<>>)
                 \o Missing(Tail(ids))
    IN  IF o.tag # "ok" THEN o.response
        ELSE Returned([symbols |-> Found(symbol_ids),
                       errors |-> Missing(symbol_ids),
                       _meta |-> [timing_ms |-> 0,
                                  symbol_count |-> Len(Found(symbol_ids))]])

\* tools/get_repo_outline.py get_repo_outline (no path has a directory part)
tool_get_repo_outline(fsys, listing, repo) ==
    LET o == OpenRepo(fsys, listing, repo)
    IN  IF o.tag # "ok" THEN o.response
        ELSE LET kinds == {Get(o.index.symbols[i], "kind", "unknown") :
                              i \in DOMAIN o.index.symbols}
             IN  Returned(
                   [repo |-> RepoLabel(o.owner, o.name),
                    indexed_at |-> o.index.indexed_at,
                    file_count |-> Len(o.index.source_files),
                    symbol_count |-> Len(o.index.symbols),
                    languages |-> o.index.languages,
                    directories |->
                       [d \in IF o.index.source_files = <<>> THEN {} ELSE {"(root)"}
                           |-> Len(o.index.source_files)],
                    symbol_kinds |->
                       [kd \in kinds |->
                           Len(SelectSeq(o.index.symbols,
                                         LAMBDA sy : Get(sy, "kind", "unknown") = kd))],
                    _meta |-> Meta])

\* tools/list_repos.py list_repos
tool_list_repos(fsys, listing) ==
    Returned([count |-> Len(list_repos(fsys, listing)),
              repos |-> list_repos(fsys, listing),
              _meta |-> Meta])

\* tools/invalidate_cache.py invalidate_cache: the response and the store
\* it leaves
tool_invalidate_cache(fsys, ds, listing, repo) ==
    LET pr == _parse_repo(fsys, listing, repo)
    IN  IF ~pr.ok
        THEN [fsys |-> fsys, ds |-> ds, response |-> Returned(pr.error)]
        ELSE LET del == delete_index(fsys, ds, pr.owner, pr.name)
             IN  [fsys |-> del.fsys,
                  ds |-> del.ds,
                  response |->
                    IF del.ret
                    THEN Returned([success |-> TRUE,
                                   repo |-> RepoLabel(pr.owner, pr.name),
                                   message |-> "Index and cached files deleted for "
                                               \o RepoLabel(pr.owner, pr.name)])
                    ELSE Returned([success |-> FALSE,
                                   error |-> "No index found for "
                                             \o RepoLabel(pr.owner, pr.name)])]

(***************************************************************************)
(* Calls on a store of several repos, each run to completion (SpecStore)   *)
(***************************************************************************)

\* The repo the calls work on most; the other one is only saved, deleted and
\* left with an interrupted save
Primary == <<Owner, Name>>
Secondary == <<"acme", "repo">>

\* The file dicts the calls are given for a repo
StoreFileMaps(k) ==
    IF k = Primary THEN RaceFileMaps ELSE {[p \in {"a.py"} |-> <<102, 233>>]}

\* The arguments of the save_index calls, <<repo, files, with_raw>>: the
\* raw files are passed along, except in one call that passes none
StoreSaveArgs ==
    {a \in RepoKeys \X FileMaps \X BOOLEAN :
        /\ a[2] \in StoreFileMaps(a[1])
        /\ ~a[3] => (a[1] = Primary /\ a[2] = [p \in {"a.py"} |-> <<233, 102>>])}

\* The git_head the callers pass
StoreGitHead == "c0ffee"

\* The ways the directory may list its files: repo after repo, in any order
\* of the repos
RECURSIVE FilesOfKeys(_)
FilesOfKeys(keys) ==
    IF keys = <<>> THEN <<>>
    ELSE <<IndexPath(Head(keys)[1], Head(keys)[2]),
           TmpPath(Head(keys)[1], Head(keys)[2])>> \o FilesOfKeys(Tail(keys))
Listings == {FilesOfKeys(keys) : keys \in ListsOf(RepoKeys)}

\* The repo identifiers the tools are called with: the label of the primary
\* repo and the bare name both repos share
ToolRepos == {[owner |-> Owner, name |-> Name], [name |-> Name]}

\* The symbol id get_symbol is asked for, and the list get_symbols is asked
\* for
ToolSymbolIds == {"a.py::f#function"}
IdLists == {<<"b.py::g#function", "a.py::f#function">>}

StoreInit ==
    /\ fs = [p \in BasePaths |-> None]
    /\ mirror = [p \in Paths |-> None]
    /\ last = [op |-> "none"]
    /\ lineage = "none"
    /\ w = [pc |-> "idle"]
    /\ r = [pc |-> "idle"]
    /\ StoreEmpty

\* store.save_index(owner, name, source_files, symbols, raw_files, languages,
\* git_head=...): the files parsed in ascending order; raw_files holds all of
\* them, or none (the caller wrote the mirror itself)
StSaveIndex(k, files, with_raw) ==
    LET raw_files == IF with_raw THEN files ELSE [fp \in {} |-> <<>>]
        res == save_index(base, dirs, k[1], k[2], Sorted(DOMAIN files),
                          ParseAll(Sorted(DOMAIN files), files), raw_files,
                          LanguagesOf(DOMAIN files), None, StoreGitHead, Now)
    IN  /\ base' = res.fsys
        /\ dirs' = res.ds
        /\ out' = [op |-> "save_index", owner |-> k[1], name |-> k[2],
                   raw_files |-> raw_files, ret |-> res.index]

\* store.incremental_save(owner, name, changed_files, new_files,
\* deleted_files, new_symbols, raw_files, languages, git_head): any three
\* disjoint lists, the changed and new files parsed in ascending order; a
\* file the manifest holds symbols of is not passed as new.
StIncrementalSave(k, changed_files, new_files, deleted_files, files) ==
    LET touched == changed_files \cup new_files
        raw_files == [fp \in touched |-> files[fp]]
        new_symbols == ParseAll(Sorted(touched), raw_files)
        res == incremental_save(base, dirs, k[1], k[2], changed_files, new_files,
                                deleted_files, new_symbols, raw_files,
                                LanguagesOf(touched), StoreGitHead, Now)
    IN  /\ touched = DOMAIN files
        /\ changed_files \cap new_files = {}
        /\ deleted_files \cap touched = {}
        /\ LET l == load_index(base, k[1], k[2])
           IN  l.tag = "ok" =>
                 \A i \in DOMAIN l.index.symbols : l.index.symbols[i].file \notin new_files
        /\ base' = res.fsys
        /\ dirs' = res.ds
        /\ out' = [op |-> "incremental_save", owner |-> k[1], name |-> k[2],
                   changed_files |-> changed_files, new_files |-> new_files,
                   deleted_files |-> deleted_files, raw_files |-> raw_files,
                   new_symbols |-> SymbolDicts(new_symbols), tag |-> res.tag,
                   prior_files |->
                       LET l == load_index(base, k[1], k[2])
                       IN  IF l.tag = "ok" THEN l.index.source_files ELSE <<>>]

\* store.delete_index(owner, name)
StDeleteIndex(k) ==
    LET res == delete_index(base, dirs, k[1], k[2])
    IN  /\ base' = res.fsys
        /\ dirs' = res.ds
        /\ out' = [op |-> "delete_index", owner |-> k[1], name |-> k[2],
                   ret |-> res.ret]

\* store.list_repos()
StListRepos(listing) ==
    /\ out' = [op |-> "list_repos", ret |-> list_repos(base, listing)]
    /\ UNCHANGED <<base, dirs>>

\* What may stand in place of a manifest the program wrote: the layout of a
\* newer schema, of an older program version (no file_hashes, no git_head),
\* a JSON text cut short, and a JSON object that is no manifest
StoreForeignKinds == {"future", "legacy", "malformed", "keyless"}

StoreForeignData ==
    _index_to_dict(SaveIndexBuild(Owner, Name, <<"b.py">>,
                                  Parse("b.py", <<103, 102>>),
                                  [p \in {"b.py"} |-> <<103, 102>>],
                                  LanguagesOf({"b.py"}), None, StoreGitHead, Now))

StoreForeignFile(kind) ==
    IF kind = "future"
    THEN Full([StoreForeignData EXCEPT !.index_version = INDEX_VERSION + 1])
    ELSE IF kind = "legacy"
    THEN Full([Without(StoreForeignData, {"file_hashes", "git_head"})
                  EXCEPT !.index_version = 1])
    ELSE IF kind = "malformed" THEN Partial
    ELSE Full([note |-> "not a manifest"])

\* The manifest of a repo is put there from outside the program
StForeign(k, kind) ==
    /\ base' = [base EXCEPT ![IndexPath(k[1], k[2])] = Some(StoreForeignFile(kind))]
    /\ out' = [op |-> "foreign", owner |-> k[1], name |-> k[2], kind |-> kind]
    /\ UNCHANGED dirs

\* A save_index that was killed between json.dump and the rename: the
\* temporary file holds the whole manifest
StInterruptedSave(k) ==
    /\ base[TmpPath(k[1], k[2])] = None
    /\ \E files \in StoreFileMaps(k) :
         base' = Dump(OpenW(base, TmpPath(k[1], k[2])), TmpPath(k[1], k[2]),
                      _index_to_dict(SaveIndexBuild(k[1], k[2], Sorted(DOMAIN files),
                                                    ParseAll(Sorted(DOMAIN files), files),
                                                    files, LanguagesOf(DOMAIN files),
                                                    None, StoreGitHead, Now)))
    /\ out' = [op |-> "interrupted", owner |-> k[1], name |-> k[2]]
    /\ UNCHANGED dirs

\* One call of a query tool
StGetSymbol(listing, repo, symbol_id, verify) ==
    /\ out' = [op |-> "get_symbol", repo |-> repo, symbol_id |-> symbol_id,
               response |-> tool_get_symbol(base, dirs, listing, repo, symbol_id,
                                            verify)]
    /\ UNCHANGED <<base, dirs>>

StGetSymbols(listing, repo, symbol_ids) ==
    /\ out' = [op |-> "get_symbols", repo |-> repo, symbol_ids |-> symbol_ids,
               response |-> tool_get_symbols(base, dirs, listing, repo, symbol_ids)]
    /\ UNCHANGED <<base, dirs>>

StGetRepoOutline(listing, repo) ==
    /\ out' = [op |-> "get_repo_outline", repo |-> repo,
               response |-> tool_get_repo_outline(base, listing, repo)]
    /\ UNCHANGED <<base, dirs>>

StToolListRepos(listing) ==
    /\ out' = [op |-> "tool_list_repos",
               response |-> tool_list_repos(base, listing)]
    /\ UNCHANGED <<base, dirs>>

StInvalidateCache(listing, repo) ==
    LET res == tool_invalidate_cache(base, dirs, listing, repo)
    IN  /\ base' = res.fsys
        /\ dirs' = res.ds
        /\ out' = [op |-> "invalidate_cache", repo |-> repo,
                   response |-> res.response]

StoreNext ==
    \/ \E a \in StoreSaveArgs :
            StSaveIndex(a[1], a[2], a[3])
            /\ UNCHANGED <<fs, mirror, last, lineage, w, r>>
    \/ \E k \in {Primary} :
          \E changed_files, new_files, deleted_files \in SUBSET Paths :
          \E files \in StoreFileMaps(k) :
            StIncrementalSave(k, changed_files, new_files, deleted_files, files)
            /\ UNCHANGED <<fs, mirror, last, lineage, w, r>>
    \/ \E k \in RepoKeys :
            StDeleteIndex(k) /\ UNCHANGED <<fs, mirror, last, lineage, w, r>>
    \/ \E listing \in Listings :
            StListRepos(listing) /\ UNCHANGED <<fs, mirror, last, lineage, w, r>>
    \/ \E k \in {Primary} : \E kind \in StoreForeignKinds :
            StForeign(k, kind) /\ UNCHANGED <<fs, mirror, last, lineage, w, r>>
    \/ \E k \in {Secondary} :
            StInterruptedSave(k) /\ UNCHANGED <<fs, mirror, last, lineage, w, r>>
    \/ \E listing \in Listings : \E repo \in ToolRepos : \E symbol_id \in ToolSymbolIds :
          \E verify \in {TRUE} :
            StGetSymbol(listing, repo, symbol_id, verify)
            /\ UNCHANGED <<fs, mirror, last, lineage, w, r>>
    \/ \E listing \in Listings : \E repo \in ToolRepos : \E symbol_ids \in IdLists :
            StGetSymbols(listing, repo, symbol_ids)
            /\ UNCHANGED <<fs, mirror, last, lineage, w, r>>
    \/ \E listing \in Listings : \E repo \in ToolRepos :
            StGetRepoOutline(listing, repo)
            /\ UNCHANGED <<fs, mirror, last, lineage, w, r>>
    \/ \E listing \in Listings :
            StToolListRepos(listing) /\ UNCHANGED <<fs, mirror, last, lineage, w, r>>
    \/ \E listing \in Listings : \E repo \in ToolRepos :
            StInvalidateCache(listing, repo)
            /\ UNCHANGED <<fs, mirror, last, lineage, w, r>>

SpecStore == StoreInit /\ [][StoreNext]_vars

(***************************************************************************)
(* Search: the scorers, CodeIndex.search, search_symbols and search_text.   *)
(* Here the text fields of a symbol and the queries are sequences of code   *)
(* points, so that lower(), "in" and split() are computed.                  *)
(***************************************************************************)

\* str.lower() on ASCII text
LowerChar(c) == IF c >= 65 /\ c <= 90 THEN c + 32 ELSE c
Lower(text) == [i \in DOMAIN text |-> LowerChar(text[i])]

\* sub in text
Contains(text, sub) ==
    \E i \in 0..(Len(text) - Len(sub)) : SubSeq(text, i + 1, i + Len(sub)) = sub

\* Whitespace, as str.split() and str.rstrip() see it
IsSpace(c) == c \in {9, 10, 13, 32}

\* str.split(): the maximal runs of non-whitespace, in order
RECURSIVE SplitFrom(_, _, _)
SplitFrom(text, i, word) ==
    IF i > Len(text) THEN (IF word = <<>> THEN <<>> ELSE <<word>>)
    ELSE IF IsSpace(text[i])
    THEN (IF word = <<>> THEN <<>> ELSE <<word>>) \o SplitFrom(text, i + 1, <<>>)
    ELSE SplitFrom(text, i + 1, Append(word, text[i]))
Split(text) == SplitFrom(text, 1, <<>>)

\* for word in query_words: if word in text: score += weight
RECURSIVE AddPerWord(_, _, _)
AddPerWord(words, text, weight) ==
    IF words = {} THEN 0
    ELSE LET word == CHOOSE x \in words : TRUE
         IN  (IF Contains(text, word) THEN weight ELSE 0)
             + AddPerWord(words \ {word}, text, weight)

\* Mutant: a name that contains the query scores like a name that equals it
_score_symbol_flat_name(sym, query_lower, query_words) ==
    LET name_lower == Lower(Get(sym, "name", <<>>))
        sig_lower == Lower(Get(sym, "signature", <<>>))
        summary_lower == Lower(Get(sym, "summary", <<>>))
        keywords == SetOf(Get(sym, "keywords", <<>>))
        doc_lower == Lower(Get(sym, "docstring", <<>>))
    IN  (IF Contains(name_lower, query_lower) THEN 20 ELSE 0)
        + AddPerWord(query_words, name_lower, 5)
        + (IF Contains(sig_lower, query_lower) THEN 8 ELSE 0)
        + AddPerWord(query_words, sig_lower, 2)
        + (IF Contains(summary_lower, query_lower) THEN 5 ELSE 0)
        + AddPerWord(query_words, summary_lower, 1)
        + Cardinality(query_words \cap keywords) * 3
        + AddPerWord(query_words, doc_lower, 1)

\* Mutant: the keywords are not scored
_score_symbol_no_keywords(sym, query_lower, query_words) ==
    LET name_lower == Lower(Get(sym, "name", <<>>))
        sig_lower == Lower(Get(sym, "signature", <<>>))
        summary_lower == Lower(Get(sym, "summary", <<>>))
        doc_lower == Lower(Get(sym, "docstring", <<>>))
    IN  (IF query_lower = name_lower THEN 20
         ELSE IF Contains(name_lower, query_lower) THEN 10 ELSE 0)
        + AddPerWord(query_words, name_lower, 5)
        + (IF Contains(sig_lower, query_lower) THEN 8 ELSE 0)
        + AddPerWord(query_words, sig_lower, 2)
        + (IF Contains(summary_lower, query_lower) THEN 5 ELSE 0)
        + AddPerWord(query_words, summary_lower, 1)
        + AddPerWord(query_words, doc_lower, 1)

\* CodeIndex._score_symbol
_score_symbol(sym, query_lower, query_words) ==
    LET name_lower == Lower(Get(sym, "name", <<>>))
        sig_lower == Lower(Get(sym, "signature", <<>>))
        summary_lower == Lower(Get(sym, "summary", <<>>))
        keywords == SetOf(Get(sym, "keywords", <<>>))
        doc_lower == Lower(Get(sym, "docstring", <<>>))
    IN  (IF query_lower = name_lower THEN 20
         ELSE IF Contains(name_lower, query_lower) THEN 10 ELSE 0)
        + AddPerWord(query_words, name_lower, 5)
        + (IF Contains(sig_lower, query_lower) THEN 8 ELSE 0)
        + AddPerWord(query_words, sig_lower, 2)
        + (IF Contains(summary_lower, query_lower) THEN 5 ELSE 0)
        + AddPerWord(query_words, summary_lower, 1)
        + Cardinality(query_words \cap keywords) * 3
        + AddPerWord(query_words, doc_lower, 1)

\* tools/search_symbols.py _calculate_score: the same lines
_calculate_score(sym, query_lower, query_words) ==
    LET name_lower == Lower(Get(sym, "name", <<>>))
        sig_lower == Lower(Get(sym, "signature", <<>>))
        summary_lower == Lower(Get(sym, "summary", <<>>))
        keywords == SetOf(Get(sym, "keywords", <<>>))
        doc_lower == Lower(Get(sym, "docstring", <<>>))
    IN  (IF query_lower = name_lower THEN 20
         ELSE IF Contains(name_lower, query_lower) THEN 10 ELSE 0)
        + AddPerWord(query_words, name_lower, 5)
        + (IF Contains(sig_lower, query_lower) THEN 8 ELSE 0)
        + AddPerWord(query_words, sig_lower, 2)
        + (IF Contains(summary_lower, query_lower) THEN 5 ELSE 0)
        + AddPerWord(query_words, summary_lower, 1)
        + Cardinality(query_words \cap keywords) * 3
        + AddPerWord(query_words, doc_lower, 1)

\* fnmatch.fnmatch(name, pat) on POSIX: "*" is any run of characters, "?" any
\* one character, anything else itself (no "[" in the patterns used)
RECURSIVE FnMatchFrom(_, _, _, _)
FnMatchFrom(name, i, pat, j) ==
    IF j > Len(pat) THEN i > Len(name)
    ELSE IF pat[j] = 42
    THEN \E k \in i..(Len(name) + 1) : FnMatchFrom(name, k, pat, j + 1)
    ELSE /\ i <= Len(name)
         /\ pat[j] = 63 \/ pat[j] = name[i]
         /\ FnMatchFrom(name, i + 1, pat, j + 1)
FnMatch(name, pat) == FnMatchFrom(name, 1, pat, 1)

\* Mutant: only the whole path is matched
_match_pattern_whole_path(file_path, pattern) == FnMatch(file_path, pattern)

\* CodeIndex._match_pattern: the pattern, or "*/" + pattern
_match_pattern(file_path, pattern) ==
    FnMatch(file_path, pattern) \/ FnMatch(file_path, <<42, 47>> \o pattern)

\* The characters of the file paths the search calls see
PathChars(p) ==
    CASE p = "a.py" -> <<97, 46, 112, 121>>
      [] p = "b.py" -> <<98, 46, 112, 121>>
      [] p = "src/a.py" -> <<115, 114, 99, 47, 97, 46, 112, 121>>
      [] p = "" -> <<>>

\* list[:n] for n >= 0, and for a negative n (all but the last -n)
Take(list, n) ==
    IF n >= 0 THEN SubSeq(list, 1, IF n < Len(list) THEN n ELSE Len(list))
    ELSE SubSeq(list, 1, Len(list) + n)

\* Mutant: on a tie the later symbol goes first
RECURSIVE InsertByScoreBeforeTies(_, _)
InsertByScoreBeforeTies(sorted, item) ==
    IF sorted = <<>> THEN <<item>>
    ELSE IF Head(sorted)[1] > item[1]
    THEN <<Head(sorted)>> \o InsertByScoreBeforeTies(Tail(sorted), item)
    ELSE <<item>> \o sorted

\* scored.sort(key=lambda x: x[0], reverse=True): a stable sort, so an item
\* goes behind every item of a score not lower than its own
RECURSIVE InsertByScore(_, _)
InsertByScore(sorted, item) ==
    IF sorted = <<>> THEN <<item>>
    ELSE IF Head(sorted)[1] >= item[1]
    THEN <<Head(sorted)>> \o InsertByScore(Tail(sorted), item)
    ELSE <<item>> \o sorted

RECURSIVE SortByScore(_)
SortByScore(scored) ==
    IF scored = <<>> THEN <<>>
    ELSE InsertByScore(SortByScore(SubSeq(scored, 1, Len(scored) - 1)),
                       scored[Len(scored)])

\* Mutant: symbols that score 0 are returned too
search_keep_zero(index, query, kind, file_pattern) ==
    LET query_lower == Lower(query)
        query_words == SetOf(Split(query_lower))
        Passes(sym) ==
            /\ (kind # None /\ kind[1] # "") => Get(sym, "kind", "") = kind[1]
            /\ (file_pattern # None /\ file_pattern[1] # <<>>) =>
                   _match_pattern(PathChars(Get(sym, "file", "")), file_pattern[1])
        passed == SelectSeq(index.symbols, Passes)
        scored == [i \in DOMAIN passed |->
                     <<_score_symbol(passed[i], query_lower, query_words), passed[i]>>]
        sorted == SortByScore(scored)
    IN  [i \in DOMAIN sorted |-> sorted[i][2]]

\* CodeIndex.search: filter, score, keep score > 0, sort by score descending
search(index, query, kind, file_pattern) ==
    LET query_lower == Lower(query)
        query_words == SetOf(Split(query_lower))
        Passes(sym) ==
            /\ (kind # None /\ kind[1] # "") => Get(sym, "kind", "") = kind[1]
            /\ (file_pattern # None /\ file_pattern[1] # <<>>) =>
                   _match_pattern(PathChars(Get(sym, "file", "")), file_pattern[1])
        passed == SelectSeq(index.symbols, Passes)
        scored == [i \in DOMAIN passed |->
                     <<_score_symbol(passed[i], query_lower, query_words), passed[i]>>]
        sorted == SortByScore(SelectSeq(scored, LAMBDA x : x[1] > 0))
    IN  [i \in DOMAIN sorted |-> sorted[i][2]]

\* The dict search_symbols builds for one hit
SearchHit(sym, query_lower, query_words) ==
    [id |-> sym.id,
     kind |-> sym.kind,
     name |-> sym.name,
     file |-> sym.file,
     line |-> sym.line,
     signature |-> sym.signature,
     summary |-> Get(sym, "summary", <<>>),
     score |-> _calculate_score(sym, query_lower, query_words)]

\* Mutant: truncated is set as soon as the cap is reached
tool_search_symbols_truncated_at_cap(fsys, listing, repo, query, kind, file_pattern, language, max_results) ==
    LET o == OpenRepo(fsys, listing, repo)
    IN  IF o.tag = "error" THEN o.response
        ELSE LET ranked == search(o.index, query, kind, file_pattern)
                 results ==
                     IF language # None /\ language[1] # ""
                     THEN SelectSeq(ranked, LAMBDA s : Get(s, "language", "") = language[1])
                     ELSE ranked
                 query_lower == Lower(query)
                 query_words == SetOf(Split(query_lower))
                 top == Take(results, max_results)
                 scored_results ==
                     [i \in DOMAIN top |-> SearchHit(top[i], query_lower, query_words)]
             IN  Returned(
                   [repo |-> RepoLabel(o.owner, o.name),
                    query |-> query,
                    result_count |-> Len(scored_results),
                    results |-> scored_results,
                    _meta |-> [timing_ms |-> 0,
                               total_symbols |-> Len(o.index.symbols),
                               truncated |-> Len(results) >= max_results]])

\* tools/search_symbols.py search_symbols
tool_search_symbols(fsys, listing, repo, query, kind, file_pattern, language, max_results) ==
    LET o == OpenRepo(fsys, listing, repo)
    IN  IF o.tag = "error" THEN o.response
        ELSE LET ranked == search(o.index, query, kind, file_pattern)
                 results ==
                     IF language # None /\ language[1] # ""
                     THEN SelectSeq(ranked, LAMBDA s : Get(s, "language", "") = language[1])
                     ELSE ranked
                 query_lower == Lower(query)
                 query_words == SetOf(Split(query_lower))
                 top == Take(results, max_results)
                 scored_results ==
                     [i \in DOMAIN top |-> SearchHit(top[i], query_lower, query_words)]
             IN  Returned(
                   [repo |-> RepoLabel(o.owner, o.name),
                    query |-> query,
                    result_count |-> Len(scored_results),
                    results |-> scored_results,
                    _meta |-> [timing_ms |-> 0,
                               total_symbols |-> Len(o.index.symbols),
                               truncated |-> Len(results) > max_results]])

\* content.split("\n"): the pieces between the line feeds, at least one
RECURSIVE SplitLinesFrom(_, _, _)
SplitLinesFrom(text, i, line) ==
    IF i > Len(text) THEN <<line>>
    ELSE IF text[i] = 10 THEN <<line>> \o SplitLinesFrom(text, i + 1, <<>>)
    ELSE SplitLinesFrom(text, i + 1, Append(line, text[i]))
SplitLines(text) == SplitLinesFrom(text, 1, <<>>)

\* str.rstrip()
RECURSIVE RStrip(_)
RStrip(text) ==
    IF text # <<>> /\ IsSpace(text[Len(text)])
    THEN RStrip(SubSeq(text, 1, Len(text) - 1)) ELSE text

\* A file of a content directory, by a path that may not be under it
FileAt(mir, p) == IF p \in DOMAIN mir THEN mir[p] ELSE None

\* The inner loop of search_text over the lines of one file: a matching line
\* is appended, then the loop breaks once the cap is reached
RECURSIVE ScanLines(_, _, _, _, _, _)
ScanLines(file_path, lines, i, matches, query_lower, max_results) ==
    IF i > Len(lines) THEN matches
    ELSE IF Contains(Lower(lines[i]), query_lower)
    THEN LET appended ==
                 Append(matches, [file |-> file_path, line |-> i,
                                  text |-> Take(RStrip(lines[i]), 200)])
         IN  IF Len(appended) >= max_results THEN appended
             ELSE ScanLines(file_path, lines, i + 1, appended, query_lower, max_results)
    ELSE ScanLines(file_path, lines, i + 1, matches, query_lower, max_results)

\* The outer loop of search_text over the files: a missing file is skipped,
\* and after each file the loop breaks once the cap is reached
RECURSIVE ScanFiles(_, _, _, _, _, _)
ScanFiles(mir, files, j, state, query_lower, max_results) ==
    IF j > Len(files) THEN state
    ELSE IF FileAt(mir, files[j]) = None
    THEN ScanFiles(mir, files, j + 1, state, query_lower, max_results)
    ELSE LET content == Decode(FileAt(mir, files[j])[1])
             matches == ScanLines(files[j], SplitLines(content), 1,
                                  state.matches, query_lower, max_results)
             after == [matches |-> matches,
                       files_searched |-> state.files_searched + 1]
         IN  IF Len(matches) >= max_results THEN after
             ELSE ScanFiles(mir, files, j + 1, after, query_lower, max_results)

\* tools/search_text.py search_text
tool_search_text(fsys, ds, listing, repo, query, file_pattern, max_results) ==
    LET o == OpenRepo(fsys, listing, repo)
    IN  IF o.tag = "error" THEN o.response
        ELSE LET files ==
                     IF file_pattern # None /\ file_pattern[1] # <<>>
                     THEN SelectSeq(o.index.source_files,
                                    LAMBDA f :
                                        \/ FnMatch(PathChars(f), file_pattern[1])
                                        \/ FnMatch(PathChars(f), <<42, 47>> \o file_pattern[1]))
                     ELSE o.index.source_files
                 swept == ScanFiles(MirrorOf(ds, o.owner, o.name), files, 1,
                                    [matches |-> <<>>, files_searched |-> 0],
                                    Lower(query), max_results)
             IN  Returned(
                   [repo |-> RepoLabel(o.owner, o.name),
                    query |-> query,
                    result_count |-> Len(swept.matches),
                    results |-> swept.matches,
                    _meta |-> [timing_ms |-> 0,
                               files_searched |-> swept.files_searched,
                               truncated |-> Len(swept.matches) >= max_results]])

(***************************************************************************)
(* Search calls on one indexed repo (SpecSearch)                            *)
(***************************************************************************)

\* A symbol dict of a manifest, its text fields spelt out as code points
\* (97 "a", 98 "b", 120 "x", 65 "A", 66 "B", 32 " ")
SearchSymbol(id, file, name, kind, language, signature, summary, keywords, docstring, line) ==
    [id |-> id,
     file |-> file,
     name |-> name,
     qualified_name |-> name,
     kind |-> kind,
     language |-> language,
     signature |-> signature,
     docstring |-> docstring,
     summary |-> summary,
     decorators |-> <<>>,
     keywords |-> keywords,
     parent |-> None,
     line |-> line,
     end_line |-> line,
     byte_offset |-> 0,
     byte_length |-> 0,
     content_hash |-> ""]

\* "a" and "ab(ab)"; "x(xa)", "a(xa)" and "ab(xa)"; "A b" with a summary,
\* keywords and a docstring; an "x" with a keyword and an "x" with nothing
SymA == SearchSymbol("a.py::a#function", "a.py", <<97>>, "function", "python", <<>>, <<>>, <<>>, <<>>, 1)
SymAb == SearchSymbol("a.py::ab#function", "a.py", <<97, 98>>, "function", "python", <<97, 98>>, <<>>, <<>>, <<>>, 2)
SymXSigXa == SearchSymbol("b.py::x#function", "b.py", <<120>>, "function", "python", <<120, 97>>, <<>>, <<>>, <<>>, 1)
SymASigXa == SearchSymbol("b.py::a#method", "b.py", <<97>>, "method", "python", <<120, 97>>, <<>>, <<>>, <<>>, 2)
SymAbSigXa == SearchSymbol("b.py::ab#function", "b.py", <<97, 98>>, "function", "python", <<120, 97>>, <<>>, <<>>, <<>>, 3)
SymClass == SearchSymbol("src/a.py::A b#class", "src/a.py", <<65, 32, 98>>, "class", "javascript", <<>>, <<97, 32, 98>>, <<(<<97>>), (<<66>>)>>, <<98, 32, 97>>, 1)
SymKeyword == SearchSymbol("src/a.py::x#function", "src/a.py", <<120>>, "function", "javascript", <<>>, <<>>, <<(<<98>>)>>, <<>>, 5)
SymPlain == SearchSymbol("b.py::x#class", "b.py", <<120>>, "class", "python", <<>>, <<>>, <<>>, <<>>, 9)

\* The manifest of the primary repo with these symbols and source files
SearchManifest(symbols, source_files) ==
    _index_to_dict([repo |-> RepoLabel(Owner, Name),
                    owner |-> Owner,
                    name |-> Name,
                    indexed_at |-> 1,
                    source_files |-> source_files,
                    languages |-> <<>>,
                    symbols |-> symbols,
                    index_version |-> INDEX_VERSION,
                    file_hashes |-> <<>>,
                    git_head |-> ""])

\* The manifests the search calls find
SearchManifests ==
    {SearchManifest(<<SymA, SymAb, SymXSigXa, SymClass>>, <<"a.py", "b.py", "src/a.py">>),
     SearchManifest(<<SymKeyword, SymXSigXa, SymClass, SymAb, SymA>>, <<"b.py", "a.py">>),
     SearchManifest(<<SymXSigXa, SymAbSigXa, SymASigXa, SymKeyword>>, <<"src/a.py", "a.py">>),
     SearchManifest(<<SymPlain>>, <<"b.py">>),
     SearchManifest(<<>>, <<>>)}

\* The paths under the content directory of the primary repo
SearchPaths == {"a.py", "b.py", "src/a.py"}

\* File contents: "a\nB a \nx", "Ab", an invalid byte before "\na", and
\* "A\n\na b "
SearchMirrors ==
    {[p \in SearchPaths |->
         CASE p = "a.py" -> Some(<<97, 10, 66, 32, 97, 32, 10, 120>>)
           [] p = "b.py" -> Some(<<65, 98>>)
           [] OTHER -> None],
     [p \in SearchPaths |->
         CASE p = "b.py" -> Some(<<233, 10, 97>>)
           [] p = "src/a.py" -> Some(<<97, 10, 66, 32, 97, 32, 10, 120>>)
           [] OTHER -> None],
     [p \in SearchPaths |->
         CASE p = "a.py" -> Some(<<65, 10, 10, 97, 32, 98, 32>>)
           [] p = "src/a.py" -> Some(<<65, 98>>)
           [] OTHER -> None],
     [p \in SearchPaths |-> None]}

\* The arguments of the search calls: "", "a", "A", "ab", "a b", "b"
Queries == {<<>>, <<97>>, <<65>>, <<97, 98>>, <<97, 32, 98>>, <<98>>}
KindArgs == {None, Some(""), Some("function"), Some("class")}
\* no pattern, "", "a.py", "src/*", "?.py"
PatternArgs == {None, Some(<<>>), Some(<<97, 46, 112, 121>>), Some(<<115, 114, 99, 47, 42>>), Some(<<63, 46, 112, 121>>)}
LanguageArgs == {None, Some(""), Some("python")}
MaxResultsArgs == {0, 1, 2, 10}
SearchRepo == [owner |-> Owner, name |-> Name]
SearchListing == FilesOfKeys(<<Primary, Secondary>>)

\* The primary repo is indexed with one of the manifests, or not at all
SearchInit ==
    /\ fs = [p \in BasePaths |-> None]
    /\ mirror = [p \in Paths |-> None]
    /\ last = [op |-> "none"]
    /\ lineage = "none"
    /\ w = [pc |-> "idle"]
    /\ r = [pc |-> "idle"]
    /\ \/ base = [p \in StorePaths |-> None]
       \/ \E doc \in SearchManifests :
            base = [p \in StorePaths |->
                       IF p = IndexPath(Owner, Name) THEN Some(Full(doc)) ELSE None]
    /\ \E mir \in SearchMirrors :
            dirs = [d \in Stems |->
                       IF d = ContentDir(Owner, Name) THEN Some(mir) ELSE None]
    /\ out = [op |-> "none"]

\* The search calls write nothing to the store, so each run makes one call on
\* the store as it was indexed and keeps what the call returned.

\* index._score_symbol(sym, query.lower(), set(query.lower().split())) on the
\* i-th symbol of the loaded index
SeScore(i, query) ==
    LET l == load_index(base, Owner, Name)
    IN  /\ out.op = "none"
        /\ l.tag = "ok"
        /\ i \in DOMAIN l.index.symbols
        /\ out' = [op |-> "score", sym |-> l.index.symbols[i], query |-> query,
                   score |-> _score_symbol(l.index.symbols[i], Lower(query),
                                           SetOf(Split(Lower(query))))]
        /\ UNCHANGED <<base, dirs>>

\* index.search(query, kind, file_pattern) on the loaded index
SeSearch(query, kind, file_pattern) ==
    LET l == load_index(base, Owner, Name)
    IN  /\ out.op = "none"
        /\ l.tag = "ok"
        /\ out' = [op |-> "search", query |-> query, kind |-> kind,
                   file_pattern |-> file_pattern,
                   results |-> search(l.index, query, kind, file_pattern)]
        /\ UNCHANGED <<base, dirs>>

SeSearchSymbols(query, kind, file_pattern, language, max_results) ==
    /\ out.op = "none"
    /\ out' = [op |-> "search_symbols", query |-> query, kind |-> kind,
               file_pattern |-> file_pattern, language |-> language,
               max_results |-> max_results,
               response |-> tool_search_symbols(base, SearchListing, SearchRepo, query,
                                                kind, file_pattern, language, max_results)]
    /\ UNCHANGED <<base, dirs>>

SeSearchText(query, file_pattern, max_results) ==
    /\ out.op = "none"
    /\ out' = [op |-> "search_text", query |-> query,
               file_pattern |-> file_pattern, max_results |-> max_results,
               response |-> tool_search_text(base, dirs, SearchListing, SearchRepo, query,
                                             file_pattern, max_results)]
    /\ UNCHANGED <<base, dirs>>

SearchNext ==
    \/ \E i \in 1..5 : \E query \in Queries :
            SeScore(i, query) /\ UNCHANGED <<fs, mirror, last, lineage, w, r>>
    \/ \E query \in Queries : \E kind \in KindArgs : \E file_pattern \in PatternArgs :
            SeSearch(query, kind, file_pattern)
            /\ UNCHANGED <<fs, mirror, last, lineage, w, r>>
    \/ \E query \in Queries : \E kind \in {None, Some("function")} :
          \E file_pattern \in PatternArgs : \E language \in LanguageArgs :
          \E max_results \in MaxResultsArgs :
            SeSearchSymbols(query, kind, file_pattern, language, max_results)
            /\ UNCHANGED <<fs, mirror, last, lineage, w, r>>
    \/ \E query \in Queries : \E file_pattern \in PatternArgs :
          \E max_results \in MaxResultsArgs :
            SeSearchText(query, file_pattern, max_results)
            /\ UNCHANGED <<fs, mirror, last, lineage, w, r>>

SpecSearch == SearchInit /\ [][SearchNext]_vars

(***************************************************************************)
(* Store calls on files with repeated declarations (SpecParse)              *)
(***************************************************************************)

\* File contents with declarations of the same name: "fgf", "ff", and "gf"
\* without a repetition
ParseContents == {<<102, 103, 102>>, <<102, 102>>, <<103, 102>>}
ParseFileMaps == UNION {[D -> ParseContents] : D \in SUBSET Paths}

\* save_index calls that pass no file_hashes
ParseSaveArgs ==
    UNION {{[files |-> files, order |-> order, hashed |-> None] :
               order \in ListsOf(DOMAIN files)} : files \in ParseFileMaps}

ParseNext ==
    \/ \E a \in ParseSaveArgs : SaveIndex(a) /\ UNCHANGED <<w, r, base, dirs, out>>
    \/ \E files \in ParseFileMaps : Reindex(files) /\ UNCHANGED <<w, r, base, dirs, out>>

SpecParse == Init /\ [][ParseNext]_vars

(***************************************************************************)
(* security.py: the discovery-time checks on one file (SpecSecurity)        *)
(***************************************************************************)

\* SECRET_PATTERNS, in order:
\*   *.env .env .env.* *.pem *.key *.p12 *.pfx *.credentials *.keystore
\*   *.jks *.token *secret* id_rsa id_rsa.* id_ed25519 id_ed25519.* id_dsa
\*   id_ecdsa .htpasswd .netrc .npmrc .pypirc credentials.json
\*   service-account*.json *.secrets
SECRET_PATTERNS ==
    <<<<42, 46, 101, 110, 118>>,
      <<46, 101, 110, 118>>,
      <<46, 101, 110, 118, 46, 42>>,
      <<42, 46, 112, 101, 109>>,
      <<42, 46, 107, 101, 121>>,
      <<42, 46, 112, 49, 50>>,
      <<42, 46, 112, 102, 120>>,
      <<42, 46, 99, 114, 101, 100, 101, 110, 116, 105, 97, 108, 115>>,
      <<42, 46, 107, 101, 121, 115, 116, 111, 114, 101>>,
      <<42, 46, 106, 107, 115>>,
      <<42, 46, 116, 111, 107, 101, 110>>,
      <<42, 115, 101, 99, 114, 101, 116, 42>>,
      <<105, 100, 95, 114, 115, 97>>,
      <<105, 100, 95, 114, 115, 97, 46, 42>>,
      <<105, 100, 95, 101, 100, 50, 53, 53, 49, 57>>,
      <<105, 100, 95, 101, 100, 50, 53, 53, 49, 57, 46, 42>>,
      <<105, 100, 95, 100, 115, 97>>,
      <<105, 100, 95, 101, 99, 100, 115, 97>>,
      <<46, 104, 116, 112, 97, 115, 115, 119, 100>>,
      <<46, 110, 101, 116, 114, 99>>,
      <<46, 110, 112, 109, 114, 99>>,
      <<46, 112, 121, 112, 105, 114, 99>>,
      <<99, 114, 101, 100, 101, 110, 116, 105, 97, 108, 115, 46, 106, 115, 111, 110>>,
      <<115, 101, 114, 118, 105, 99, 101, 45, 97, 99, 99, 111, 117, 110, 116, 42, 46, 106, 115, 111, 110>>,
      <<42, 46, 115, 101, 99, 114, 101, 116, 115>>>>

\* BINARY_EXTENSIONS:
\*   .7z .a .avi .bin .bmp .bz2 .class .db .dll .doc .docx .dylib .ear .eot
\*   .exe .flac .gif .gz .ico .jar .jpeg .jpg .lib .min.css.map .min.js.map
\*   .mkv .mov .mp3 .mp4 .o .obj .ogg .otf .out .pdf .png .ppt .pptx .pyc
\*   .pyo .rar .so .sqlite .sqlite3 .svg .tar .tif .tiff .ttf .war .wasm
\*   .wav .webm .webp .woff .woff2 .xls .xlsx .xz .zip
BINARY_EXTENSIONS ==
    {<<46, 55, 122>>,
     <<46, 97>>,
     <<46, 97, 118, 105>>,
     <<46, 98, 105, 110>>,
     <<46, 98, 109, 112>>,
     <<46, 98, 122, 50>>,
     <<46, 99, 108, 97, 115, 115>>,
     <<46, 100, 98>>,
     <<46, 100, 108, 108>>,
     <<46, 100, 111, 99>>,
     <<46, 100, 111, 99, 120>>,
     <<46, 100, 121, 108, 105, 98>>,
     <<46, 101, 97, 114>>,
     <<46, 101, 111, 116>>,
     <<46, 101, 120, 101>>,
     <<46, 102, 108, 97, 99>>,
     <<46, 103, 105, 102>>,
     <<46, 103, 122>>,
     <<46, 105, 99, 111>>,
     <<46, 106, 97, 114>>,
     <<46, 106, 112, 101, 103>>,
     <<46, 106, 112, 103>>,
     <<46, 108, 105, 98>>,
     <<46, 109, 105, 110, 46, 99, 115, 115, 46, 109, 97, 112>>,
     <<46, 109, 105, 110, 46, 106, 115, 46, 109, 97, 112>>,
     <<46, 109, 107, 118>>,
     <<46, 109, 111, 118>>,
     <<46, 109, 112, 51>>,
     <<46, 109, 112, 52>>,
     <<46, 111>>,
     <<46, 111, 98, 106>>,
     <<46, 111, 103, 103>>,
     <<46, 111, 116, 102>>,
     <<46, 111, 117, 116>>,
     <<46, 112, 100, 102>>,
     <<46, 112, 110, 103>>,
     <<46, 112, 112, 116>>,
     <<46, 112, 112, 116, 120>>,
     <<46, 112, 121, 99>>,
     <<46, 112, 121, 111>>,
     <<46, 114, 97, 114>>,
     <<46, 115, 111>>,
     <<46, 115, 113, 108, 105, 116, 101>>,
     <<46, 115, 113, 108, 105, 116, 101, 51>>,
     <<46, 115, 118, 103>>,
     <<46, 116, 97, 114>>,
     <<46, 116, 105, 102>>,
     <<46, 116, 105, 102, 102>>,
     <<46, 116, 116, 102>>,
     <<46, 119, 97, 114>>,
     <<46, 119, 97, 115, 109>>,
     <<46, 119, 97, 118>>,
     <<46, 119, 101, 98, 109>>,
     <<46, 119, 101, 98, 112>>,
     <<46, 119, 111, 102, 102>>,
     <<46, 119, 111, 102, 102, 50>>,
     <<46, 120, 108, 115>>,
     <<46, 120, 108, 115, 120>>,
     <<46, 120, 122>>,
     <<46, 122, 105, 112>>}

\* The place of the last c in a text, 0 when there is none (str.rfind)
LastIndexOf(text, c) ==
    IF \E i \in DOMAIN text : text[i] = c
    THEN CHOOSE i \in DOMAIN text : text[i] = c /\ \A j \in (i + 1)..Len(text) : text[j] # c
    ELSE 0

\* os.path.basename
BaseName(path) == SubSeq(path, LastIndexOf(path, 47) + 1, Len(path))

\* is_secret_file: the lowercased basename or the lowercased path matches one
\* of the patterns
is_secret_file(file_path) ==
    \E i \in DOMAIN SECRET_PATTERNS :
        \/ FnMatch(Lower(BaseName(file_path)), SECRET_PATTERNS[i])
        \/ FnMatch(Lower(file_path), SECRET_PATTERNS[i])

\* os.path.splitext(p)[1]: from the last dot of the last component, unless
\* only dots stand before it there
SplitExt(p) ==
    LET sep == LastIndexOf(p, 47)
        dot == LastIndexOf(p, 46)
    IN  IF dot > sep /\ \E k \in (sep + 1)..(dot - 1) : p[k] # 46
        THEN SubSeq(p, dot, Len(p)) ELSE <<>>

\* is_binary_extension
is_binary_extension(file_path) == Lower(SplitExt(file_path)) \in BINARY_EXTENSIONS

\* A file as the checks see it: whether file_path is lexically under root and
\* its posix path below it, whether it is a symlink, where resolve() lands
\* ("inside" or "outside" the resolved root, or "error" for an OSError or
\* ValueError), and what stat() gives (None for an OSError, else the size)

\* is_symlink_escape: a symlink that resolves outside the root or cannot be
\* resolved
is_symlink_escape(file) == file.symlink /\ file.resolves # "inside"

\* validate_path: the resolved target is within the resolved root
validate_path(file) == file.resolves = "inside"

\* Mutant: a file of exactly max_file_size is too large
should_exclude_file_size_inclusive(file, max_file_size, check_secrets, check_binary, check_symlinks) ==
    IF check_symlinks /\ is_symlink_escape(file) THEN Some("symlink_escape")
    ELSE IF ~validate_path(file) THEN Some("path_traversal")
    ELSE IF ~file.under_root THEN Some("outside_root")
    ELSE IF check_secrets /\ is_secret_file(file.posix) THEN Some("secret_file")
    ELSE IF file.stat = None THEN Some("unreadable")
    ELSE IF file.stat[1] >= max_file_size THEN Some("file_too_large")
    ELSE IF check_binary /\ is_binary_extension(file.posix) THEN Some("binary_extension")
    ELSE None

\* should_exclude_file: the reason, or None
should_exclude_file(file, max_file_size, check_secrets, check_binary, check_symlinks) ==
    IF check_symlinks /\ is_symlink_escape(file) THEN Some("symlink_escape")
    ELSE IF ~validate_path(file) THEN Some("path_traversal")
    ELSE IF ~file.under_root THEN Some("outside_root")
    ELSE IF check_secrets /\ is_secret_file(file.posix) THEN Some("secret_file")
    ELSE IF file.stat = None THEN Some("unreadable")
    ELSE IF file.stat[1] > max_file_size THEN Some("file_too_large")
    ELSE IF check_binary /\ is_binary_extension(file.posix) THEN Some("binary_extension")
    ELSE None

DEFAULT_MAX_FILE_SIZE == 500 * 1024

\* The paths of the files checked: main.py, .env, conf/.env.local, src/Secret_keys.py, image.PNG, id_rsa.png, .gitignore, x.tar.gz, data.env/a.py
CheckedPaths ==
    {<<109, 97, 105, 110, 46, 112, 121>>,
     <<46, 101, 110, 118>>,
     <<99, 111, 110, 102, 47, 46, 101, 110, 118, 46, 108, 111, 99, 97, 108>>,
     <<115, 114, 99, 47, 83, 101, 99, 114, 101, 116, 95, 107, 101, 121, 115, 46, 112, 121>>,
     <<105, 109, 97, 103, 101, 46, 80, 78, 71>>,
     <<105, 100, 95, 114, 115, 97, 46, 112, 110, 103>>,
     <<46, 103, 105, 116, 105, 103, 110, 111, 114, 101>>,
     <<120, 46, 116, 97, 114, 46, 103, 122>>,
     <<100, 97, 116, 97, 46, 101, 110, 118, 47, 97, 46, 112, 121>>}

\* The files checked, and the limits they are checked against
CheckedFiles ==
    [under_root : BOOLEAN,
     posix : CheckedPaths,
     symlink : BOOLEAN,
     resolves : {"inside", "outside", "error"},
     stat : {None, Some(0), Some(DEFAULT_MAX_FILE_SIZE), Some(DEFAULT_MAX_FILE_SIZE + 1)}]
MaxFileSizes == {0, DEFAULT_MAX_FILE_SIZE}

SecurityInit ==
    /\ fs = [p \in BasePaths |-> None]
    /\ mirror = [p \in Paths |-> None]
    /\ last = [op |-> "none"]
    /\ lineage = "none"
    /\ w = [pc |-> "idle"]
    /\ r = [pc |-> "idle"]
    /\ StoreEmpty

\* One call of should_exclude_file; it reads the file system and changes
\* nothing
ShouldExcludeFile(file, max_file_size, check_secrets, check_binary, check_symlinks) ==
    /\ out.op = "none"
    /\ out' = [op |-> "should_exclude_file", file |-> file,
               max_file_size |-> max_file_size, check_secrets |-> check_secrets,
               check_binary |-> check_binary, check_symlinks |-> check_symlinks,
               reason |-> should_exclude_file(file, max_file_size, check_secrets,
                                              check_binary, check_symlinks)]
    /\ UNCHANGED <<base, dirs>>

SecurityNext ==
    \E file \in CheckedFiles : \E max_file_size \in MaxFileSizes :
      \E check_secrets, check_binary, check_symlinks \in BOOLEAN :
        ShouldExcludeFile(file, max_file_size, check_secrets, check_binary, check_symlinks)
        /\ UNCHANGED <<fs, mirror, last, lineage, w, r>>

SpecSecurity == SecurityInit /\ [][SecurityNext]_vars

(***************************************************************************)
(* get_symbol with and without verify, on a mirror that may be older than   *)
(* the manifest (SpecVerify)                                                *)
(***************************************************************************)

\* One file, "a.py", of contents "f" + U+FFFD, "f" + U+10000, "f" + "e'"
\* (233) and "gf": 4, 5, 3 and 2 bytes
VerifyContents == {<<102, 65533>>, <<102, 65536>>, <<102, 233>>, <<103, 102>>}
VerifyFileMaps == [{"a.py"} -> VerifyContents]
VerifySymbolIds == {"a.py::f#function", "a.py::g#function"}

\* get_symbol(repo, symbol_id, verify=...)
VfGetSymbol(symbol_id, verify) ==
    /\ out' = [op |-> "get_symbol", repo |-> SearchRepo, symbol_id |-> symbol_id,
               verify |-> verify,
               response |-> tool_get_symbol(base, dirs, SearchListing, SearchRepo,
                                            symbol_id, verify)]
    /\ UNCHANGED <<base, dirs>>

VerifyNext ==
    \/ \E files \in VerifyFileMaps : \E with_raw \in BOOLEAN :
            StSaveIndex(Primary, files, with_raw)
            /\ UNCHANGED <<fs, mirror, last, lineage, w, r>>
    \/ \E symbol_id \in VerifySymbolIds : \E verify \in BOOLEAN :
            VfGetSymbol(symbol_id, verify)
            /\ UNCHANGED <<fs, mirror, last, lineage, w, r>>

SpecVerify == StoreInit /\ [][VerifyNext]_vars

(***************************************************************************)
(* A store of repos whose owner or name holds a "-" (SpecIsolation)        *)
(***************************************************************************)

\* The (owner, name) pairs: "a-b"/"c" and "a"/"b-c" differ in both parts,
\* "a"/"c" shares a part with each
IsolationKeys == {<<"a-b", "c">>, <<"a", "b-c">>, <<"a", "c">>}

\* The file dicts the calls are given
IsolationFileMaps ==
    {files \in FileMaps :
        /\ "a.py" \in DOMAIN files
        /\ files["a.py"] \in {<<102, 233>>, <<103, 102>>}
        /\ "b.py" \in DOMAIN files => files["b.py"] = <<103, 102>>}

\* An empty base directory
IsolationInit ==
    /\ fs = [p \in BasePaths |-> None]
    /\ mirror = [p \in Paths |-> None]
    /\ last = [op |-> "none"]
    /\ lineage = "none"
    /\ w = [pc |-> "idle"]
    /\ r = [pc |-> "idle"]
    /\ base = [p \in UNION {{IndexPath(k[1], k[2]), TmpPath(k[1], k[2])} :
                                k \in IsolationKeys} |-> None]
    /\ dirs = [d \in {ContentDir(k[1], k[2]) : k \in IsolationKeys} |-> None]
    /\ out = [op |-> "none"]

IsolationNext ==
    \/ \E k \in IsolationKeys : \E files \in IsolationFileMaps :
            StSaveIndex(k, files, TRUE)
            /\ UNCHANGED <<fs, mirror, last, lineage, w, r>>
    \/ \E k \in IsolationKeys :
          \E changed_files, new_files, deleted_files \in SUBSET Paths :
          \E files \in IsolationFileMaps :
            StIncrementalSave(k, changed_files, new_files, deleted_files, files)
            /\ UNCHANGED <<fs, mirror, last, lineage, w, r>>
    \/ \E k \in IsolationKeys :
            StDeleteIndex(k) /\ UNCHANGED <<fs, mirror, last, lineage, w, r>>

SpecIsolation == IsolationInit /\ [][IsolationNext]_vars

(***************************************************************************)
(* save_index with all or none of the contents, and incremental_save with  *)
(* any delta (SpecHashes)                                                   *)
(***************************************************************************)

\* save_index without file_hashes; raw_files holds every source file, or
\* none (tests/test_security.py writes the mirror file itself)
HsSaveIndex(files, with_raw) ==
    /\ StSaveIndex(Primary, files, with_raw)
    /\ lineage' = IF with_raw \/ DOMAIN files = {} THEN "saved" ELSE "detected"
    /\ UNCHANGED <<fs, mirror, last, w, r>>

\* incremental_save with any three disjoint lists
HsIncrementalSave(changed_files, new_files, deleted_files, files) ==
    /\ StIncrementalSave(Primary, changed_files, new_files, deleted_files, files)
    /\ UNCHANGED <<fs, mirror, last, lineage, w, r>>

HashesNext ==
    \/ \E files \in RaceFileMaps : \E with_raw \in BOOLEAN :
            HsSaveIndex(files, with_raw)
    \/ \E changed_files, new_files, deleted_files \in SUBSET Paths :
          \E files \in RaceFileMaps :
            HsIncrementalSave(changed_files, new_files, deleted_files, files)

SpecHashes == StoreInit /\ [][HashesNext]_vars

(***************************************************************************)
(* server.py call_tool: the dispatcher of the tools (SpecDispatch)         *)
(***************************************************************************)

\* The names call_tool knows, in the order of its branches
ToolNames ==
    <<"index_repo", "index_folder", "list_repos", "get_file_tree",
      "get_file_outline", "get_symbol", "get_symbols", "search_symbols",
      "invalidate_cache", "search_text", "get_repo_outline">>

\* The arguments[...] subscripts of each branch, in evaluation order
RequiredArgs(name) ==
    CASE name = "index_repo" -> <<"url">>
      [] name = "index_folder" -> <<"path">>
      [] name = "list_repos" -> <<>>
      [] name = "get_file_outline" -> <<"repo", "file_path">>
      [] name = "get_symbol" -> <<"repo", "symbol_id">>
      [] name = "get_symbols" -> <<"repo", "symbol_ids">>
      [] name \in {"search_symbols", "search_text"} -> <<"repo", "query">>
      [] OTHER -> <<"repo">>

\* str(KeyError(key))
KeyErrorText(key) == "'" \o key \o "'"

\* str(e) of an exception a tool raised; the text is not modelled further
ExceptionText == "exception"

\* What the tool of a branch does with the store: the store it leaves and
\* what it returns or that it raises. index_repo, index_folder, get_file_tree
\* and get_file_outline are taken to return any dict or to raise (outcome).
RunTool(fsys, ds, listing, name, arguments, outcome) ==
    LET same(response) == [fsys |-> fsys, ds |-> ds, response |-> response]
    IN  CASE name = "list_repos" -> same(tool_list_repos(fsys, listing))
          [] name = "get_symbol" ->
                same(tool_get_symbol(fsys, ds, listing, arguments.repo,
                                     arguments.symbol_id,
                                     Get(arguments, "verify", FALSE)))
          [] name = "get_symbols" ->
                same(tool_get_symbols(fsys, ds, listing, arguments.repo,
                                      arguments.symbol_ids))
          [] name = "search_symbols" ->
                same(tool_search_symbols(fsys, listing, arguments.repo,
                                         arguments.query,
                                         Get(arguments, "kind", None),
                                         Get(arguments, "file_pattern", None),
                                         Get(arguments, "language", None),
                                         Get(arguments, "max_results", 10)))
          [] name = "invalidate_cache" ->
                tool_invalidate_cache(fsys, ds, listing, arguments.repo)
          [] name = "search_text" ->
                same(tool_search_text(fsys, ds, listing, arguments.repo,
                                      arguments.query,
                                      Get(arguments, "file_pattern", None),
                                      Get(arguments, "max_results", 20)))
          [] name = "get_repo_outline" ->
                same(tool_get_repo_outline(fsys, listing, arguments.repo))
          [] OTHER -> same(outcome)

\* [TextContent(type="text", text=json.dumps(result, indent=2))]
TextResult(result) == <<[type |-> "text", text |-> [json |-> result]]>>

\* What leaves call_tool after the tool ran: the result as text, and for an
\* exception of the tool the error text of the except clause
CallCaught(run) ==
    [fsys |-> run.fsys,
     ds |-> run.ds,
     response |->
       IF run.response.raised
       THEN Returned(TextResult([error |-> ExceptionText]))
       ELSE Returned(TextResult(run.response.value))]

\* The same without the except clause
CallPropagates(run) ==
    [fsys |-> run.fsys,
     ds |-> run.ds,
     response |->
       IF run.response.raised THEN Raised
       ELSE Returned(TextResult(run.response.value))]

\* Mutant: no except clause; an exception leaves call_tool
call_tool_no_except(fsys, ds, listing, name, arguments, outcome) ==
    LET missing == SelectSeq(RequiredArgs(name), LAMBDA k : k \notin DOMAIN arguments)
        same(content) == [fsys |-> fsys, ds |-> ds, response |-> content]
    IN  IF \A i \in DOMAIN ToolNames : ToolNames[i] # name
        THEN same(Returned(TextResult([error |-> "Unknown tool: " \o name])))
        ELSE IF missing # <<>> THEN same(Raised)
        ELSE CallPropagates(RunTool(fsys, ds, listing, name, arguments, outcome))

\* call_tool: the store it leaves and the content list it returns
call_tool(fsys, ds, listing, name, arguments, outcome) ==
    LET missing == SelectSeq(RequiredArgs(name), LAMBDA k : k \notin DOMAIN arguments)
        same(content) == [fsys |-> fsys, ds |-> ds, response |-> content]
    IN  IF \A i \in DOMAIN ToolNames : ToolNames[i] # name
        THEN same(Returned(TextResult([error |-> "Unknown tool: " \o name])))
        ELSE IF missing # <<>>
        THEN same(Returned(TextResult([error |-> KeyErrorText(missing[1])])))
        ELSE CallCaught(RunTool(fsys, ds, listing, name, arguments, outcome))

\* The names the dispatcher is called with: its own and one it does not know
CalledNames == {ToolNames[i] : i \in DOMAIN ToolNames} \cup {"get_code"}

\* The arguments mappings: none, and the arguments of the tools with and
\* without the optional ones
CalledArguments ==
    {[k \in {} |-> TRUE],
     [repo |-> SearchRepo],
     [repo |-> [name |-> Name]],
     [symbol_id |-> "a.py::a#function"],
     [repo |-> SearchRepo, symbol_id |-> "a.py::a#function"],
     [repo |-> SearchRepo, symbol_id |-> "a.py::a#function", verify |-> TRUE],
     [repo |-> SearchRepo, symbol_ids |-> <<"b.py::x#function", "a.py::f#function">>],
     [repo |-> SearchRepo, query |-> <<97>>],
     [repo |-> SearchRepo, query |-> <<97>>, max_results |-> 1],
     [repo |-> SearchRepo, file_path |-> "a.py"],
     [url |-> "acme/repo"],
     [path |-> "."]}

\* What a tool that is not modelled here may do
ToolOutcomes == {Returned([success |-> TRUE]), Returned([error |-> "failed"]), Raised}

\* One call of call_tool on the store as it was left
CallTool(name, arguments, outcome) ==
    /\ out.op # "call_tool"
    /\ \E res \in {call_tool(base, dirs, SearchListing, name, arguments, outcome)} :
         /\ base' = res.fsys
         /\ dirs' = res.ds
         /\ out' = [op |-> "call_tool", name |-> name, arguments |-> arguments,
                    outcome |-> outcome, response |-> res.response]

\* The store is as the search calls find it; the manifest may be replaced by
\* one of a newer schema, a JSON text cut short or a JSON object that is no
\* manifest
DispatchNext ==
    \/ \E kind \in {"future", "malformed", "keyless"} :
            StForeign(Primary, kind)
            /\ UNCHANGED <<fs, mirror, last, lineage, w, r>>
    \/ \E name \in CalledNames : \E arguments \in CalledArguments :
          \E outcome \in ToolOutcomes :
            CallTool(name, arguments, outcome)
            /\ UNCHANGED <<fs, mirror, last, lineage, w, r>>

SpecDispatch == SearchInit /\ [][DispatchNext]_vars

(***************************************************************************)
(* tools/index_folder.py: the walk of a local folder (SpecDiscover)        *)
(***************************************************************************)

\* The bytes is_binary_file reads, and the default of max_files
CHECK_SIZE == 8192
MAX_FILES == 500

\* Path parts whose presence anywhere in a relative path skips a file
SKIP_PATTERNS ==
    <<<<110, 111, 100, 101, 95, 109, 111, 100, 117, 108, 101, 115, 47>>,
      <<118, 101, 110, 100, 111, 114, 47>>,
      <<118, 101, 110, 118, 47>>,
      <<46, 118, 101, 110, 118, 47>>,
      <<95, 95, 112, 121, 99, 97, 99, 104, 101, 95, 95, 47>>,
      <<100, 105, 115, 116, 47>>,
      <<98, 117, 105, 108, 100, 47>>,
      <<46, 103, 105, 116, 47>>,
      <<46, 116, 111, 120, 47>>,
      <<46, 109, 121, 112, 121, 95, 99, 97, 99, 104, 101, 47>>,
      <<116, 97, 114, 103, 101, 116, 47>>,
      <<46, 103, 114, 97, 100, 108, 101, 47>>,
      <<116, 101, 115, 116, 95, 100, 97, 116, 97, 47>>,
      <<116, 101, 115, 116, 100, 97, 116, 97, 47>>,
      <<102, 105, 120, 116, 117, 114, 101, 115, 47>>,
      <<115, 110, 97, 112, 115, 104, 111, 116, 115, 47>>,
      <<109, 105, 103, 114, 97, 116, 105, 111, 110, 115, 47>>,
      <<46, 109, 105, 110, 46, 106, 115>>,
      <<46, 109, 105, 110, 46, 116, 115>>,
      <<46, 98, 117, 110, 100, 108, 101, 46, 106, 115>>,
      <<112, 97, 99, 107, 97, 103, 101, 45, 108, 111, 99, 107, 46, 106, 115, 111, 110>>,
      <<121, 97, 114, 110, 46, 108, 111, 99, 107>>,
      <<103, 111, 46, 115, 117, 109>>,
      <<103, 101, 110, 101, 114, 97, 116, 101, 100, 47>>,
      <<112, 114, 111, 116, 111, 47>>>>

\* should_skip_file: "\" is read as "/", then any of the parts is looked for
should_skip_file(path) ==
    LET normalized == [i \in DOMAIN path |-> IF path[i] = 92 THEN 47 ELSE path[i]]
    IN  \E i \in DOMAIN SKIP_PATTERNS : Contains(normalized, SKIP_PATTERNS[i])

\* parser.LANGUAGE_EXTENSIONS: the suffixes ".py" and ".js" and their language
LANGUAGE_EXTENSIONS ==
    [ext \in {<<46, 112, 121>>, <<46, 106, 115>>} |->
        IF ext = <<46, 112, 121>> THEN "python" ELSE "javascript"]

\* Path.suffix: from the last dot of the name, when the dot is neither its
\* first nor its last character
Suffix(p) ==
    LET name == BaseName(p)
        dot == LastIndexOf(name, 46)
    IN  IF dot > 1 /\ dot < Len(name) THEN SubSeq(name, dot, Len(name)) ELSE <<>>

\* A source of ignore patterns (.gitignore, or extra_ignore_patterns): its
\* lines, and whether reading the file and PathSpec.from_lines succeed; None
\* when there is no .gitignore, or no or an empty list of extra patterns
IgnoreSource(lines, loads) == Some([lines |-> lines, loads |-> loads])

\* _load_gitignore and the extra-spec block: the PathSpec, or None when there
\* is no source or an exception was swallowed
LoadSpec(source) ==
    IF source = None \/ ~source[1].loads THEN None ELSE Some(source[1].lines)

\* PathSpec.match_file for patterns without "/" and "!": a pattern matches
\* the file name at any depth
MatchFile(lines, rel_path) ==
    \E i \in DOMAIN lines : FnMatch(BaseName(rel_path), lines[i])

\* is_binary_content on the bytes read: a null byte among the first
\* check_size of them (first_null is the offset of the first null byte)
is_binary_content(first_null, check_size) ==
    first_null # None /\ first_null[1] < check_size

\* is_binary_file: a binary extension, a null byte in the bytes read, or a
\* file that cannot be read
is_binary_file(file, check_size) ==
    \/ is_binary_extension(file.posix)
    \/ file.stat = None
    \/ is_binary_content(file.first_null, check_size)

\* A path rglob yields: its path below the root, whether it is a file and a
\* symlink, where it resolves, its stat() size (None for an OSError) and the
\* offset of its first null byte (None when it has none)
WalkedFile(posix, isfile, symlink, resolves, stat, first_null) ==
    [posix |-> posix, is_file |-> isfile, symlink |-> symlink, resolves |-> resolves,
     under_root |-> TRUE, stat |-> stat, first_null |-> first_null]

\* The step of the loop for one path: "keep", "skip", or the warning added
Gate(file, max_size, gitignore_spec, extra_spec, follow_symlinks) ==
    IF ~file.is_file THEN "skip"
    ELSE IF ~follow_symlinks /\ file.symlink THEN "skip"
    ELSE IF file.symlink /\ is_symlink_escape(file) THEN "Skipped symlink escape"
    ELSE IF ~validate_path(file) THEN "Skipped path traversal"
    ELSE IF should_skip_file(file.posix) THEN "skip"
    ELSE IF gitignore_spec # None /\ MatchFile(gitignore_spec[1], file.posix) THEN "skip"
    ELSE IF extra_spec # None /\ MatchFile(extra_spec[1], file.posix) THEN "skip"
    ELSE IF is_secret_file(file.posix) THEN "Skipped secret file"
    ELSE IF Suffix(file.posix) \notin DOMAIN LANGUAGE_EXTENSIONS THEN "skip"
    ELSE IF file.stat = None \/ file.stat[1] > max_size THEN "skip"
    ELSE IF is_binary_file(file, CHECK_SIZE) THEN "Skipped binary file"
    ELSE "keep"

\* a < b for two texts (str comparison, by code point)
RECURSIVE TextLess(_, _)
TextLess(a, b) ==
    IF b = <<>> THEN FALSE
    ELSE IF a = <<>> THEN TRUE
    ELSE IF Head(a) # Head(b) THEN Head(a) < Head(b)
    ELSE TextLess(Tail(a), Tail(b))

\* rel_path.startswith(prefix), rel_path.count("/")
StartsWith(text, prefix) ==
    Len(prefix) <= Len(text) /\ SubSeq(text, 1, Len(prefix)) = prefix
CountSlash(text) == Cardinality({i \in DOMAIN text : text[i] = 47})

\* priority_key: the place of the first priority directory the path starts
\* with (counted from 0; their number when it starts with none), the depth,
\* the path
PriorityDirs == <<<<115, 114, 99, 47>>, <<108, 105, 98, 47>>, <<112, 107, 103, 47>>, <<99, 109, 100, 47>>, <<105, 110, 116, 101, 114, 110, 97, 108, 47>>>>
priority_key(file) ==
    LET hits == {i \in DOMAIN PriorityDirs : StartsWith(file.posix, PriorityDirs[i])}
        first == IF hits = {} THEN Len(PriorityDirs)
                 ELSE (CHOOSE i \in hits : \A j \in hits : i <= j) - 1
    IN  <<first, CountSlash(file.posix), file.posix>>

KeyLess(a, b) ==
    \/ a[1] < b[1]
    \/ a[1] = b[1] /\ a[2] < b[2]
    \/ a[1] = b[1] /\ a[2] = b[2] /\ TextLess(a[3], b[3])

\* files.sort(key=priority_key): stable, ascending
RECURSIVE InsertByKey(_, _)
InsertByKey(sorted, file) ==
    IF sorted = <<>> THEN <<file>>
    ELSE IF KeyLess(priority_key(file), priority_key(Head(sorted)))
    THEN <<file>> \o sorted
    ELSE <<Head(sorted)>> \o InsertByKey(Tail(sorted), file)

RECURSIVE SortByKey(_)
SortByKey(files) ==
    IF files = <<>> THEN <<>>
    ELSE InsertByKey(SortByKey(SubSeq(files, 1, Len(files) - 1)), files[Len(files)])

\* The entries of a list at the places where flags holds, in order
PickAt(list, flags) ==
    LET idx == {i \in DOMAIN list : flags[i]}
    IN  [k \in 1..Cardinality(idx) |->
            list[CHOOSE i \in idx : Cardinality({j \in idx : j < i}) = k - 1]]

\* The result of the walk given what the loop did at each path: the files
\* kept, cut to max_files by priority when there are more, and the warnings
Discovered(walk, gates, max_files) ==
    LET kept == PickAt(walk, [i \in DOMAIN walk |-> gates[i] = "keep"])
        warned == PickAt([i \in DOMAIN walk |-> [text |-> gates[i], path |-> walk[i].posix]],
                         [i \in DOMAIN walk |-> gates[i] \notin {"keep", "skip"}])
    IN  [files |-> IF Len(kept) > max_files THEN Take(SortByKey(kept), max_files)
                   ELSE kept,
         warnings |-> warned]

\* Mutant: the extra ignore patterns are not applied
discover_local_files_no_extra(walk, max_files, max_size, gitignore, extra_ignore_patterns, follow_symlinks) ==
    LET gitignore_spec == LoadSpec(gitignore)
    IN  Discovered(walk,
                   [i \in DOMAIN walk |->
                       Gate(walk[i], max_size, gitignore_spec, None, follow_symlinks)],
                   max_files)

\* discover_local_files over the paths rglob yields, in its order: the files
\* kept and the warnings
discover_local_files(walk, max_files, max_size, gitignore, extra_ignore_patterns, follow_symlinks) ==
    LET gitignore_spec == LoadSpec(gitignore)
        extra_spec == LoadSpec(extra_ignore_patterns)
    IN  Discovered(walk,
                   [i \in DOMAIN walk |->
                       Gate(walk[i], max_size, gitignore_spec, extra_spec,
                            follow_symlinks)],
                   max_files)

\* The paths of the folders walked:
\* main.py src/app.py lib/x/util.js link.py out.py up/a.py secret_key.py b.py temp.py big.py edge.py nul.py gone.py node_modules/m.js README.md pkg
WalkedFiles ==
    <<WalkedFile(<<109, 97, 105, 110, 46, 112, 121>>, TRUE, FALSE, "inside", Some(10), None),
     WalkedFile(<<115, 114, 99, 47, 97, 112, 112, 46, 112, 121>>, TRUE, FALSE, "inside", Some(10), None),
     WalkedFile(<<108, 105, 98, 47, 120, 47, 117, 116, 105, 108, 46, 106, 115>>, TRUE, FALSE, "inside", Some(0), None),
     WalkedFile(<<108, 105, 110, 107, 46, 112, 121>>, TRUE, TRUE, "inside", Some(10), None),
     WalkedFile(<<111, 117, 116, 46, 112, 121>>, TRUE, TRUE, "outside", Some(10), None),
     WalkedFile(<<117, 112, 47, 97, 46, 112, 121>>, TRUE, FALSE, "outside", Some(10), None),
     WalkedFile(<<115, 101, 99, 114, 101, 116, 95, 107, 101, 121, 46, 112, 121>>, TRUE, FALSE, "inside", Some(10), None),
     WalkedFile(<<98, 46, 112, 121>>, TRUE, FALSE, "inside", Some(10), None),
     WalkedFile(<<116, 101, 109, 112, 46, 112, 121>>, TRUE, FALSE, "inside", Some(10), None),
     WalkedFile(<<98, 105, 103, 46, 112, 121>>, TRUE, FALSE, "inside", Some(DEFAULT_MAX_FILE_SIZE + 1), None),
     WalkedFile(<<101, 100, 103, 101, 46, 112, 121>>, TRUE, FALSE, "inside", Some(DEFAULT_MAX_FILE_SIZE), Some(CHECK_SIZE)),
     WalkedFile(<<110, 117, 108, 46, 112, 121>>, TRUE, FALSE, "inside", Some(CHECK_SIZE), Some(CHECK_SIZE - 1)),
     WalkedFile(<<103, 111, 110, 101, 46, 112, 121>>, TRUE, FALSE, "inside", None, None),
     WalkedFile(<<110, 111, 100, 101, 95, 109, 111, 100, 117, 108, 101, 115, 47, 109, 46, 106, 115>>, TRUE, FALSE, "inside", Some(10), None),
     WalkedFile(<<82, 69, 65, 68, 77, 69, 46, 109, 100>>, TRUE, FALSE, "inside", Some(10), None),
     WalkedFile(<<112, 107, 103>>, FALSE, FALSE, "inside", Some(0), None)>>

\* The folders: up to two of the paths, in the order above
Walks ==
    {[i \in 1..Cardinality(S) |->
         WalkedFiles[CHOOSE k \in S : Cardinality({j \in S : j < k}) = i - 1]] :
       S \in {T \in SUBSET DOMAIN WalkedFiles : Cardinality(T) <= 2}}

\* .gitignore: none, "b.py" and "*.md", and the same in a file that fails to
\* load; extra_ignore_patterns: none, "t*.py", and "t*.py" with a pattern
\* PathSpec.from_lines rejects
GitignoreSources ==
    {None,
     IgnoreSource(<<(<<98, 46, 112, 121>>), (<<42, 46, 109, 100>>)>>, TRUE),
     IgnoreSource(<<(<<98, 46, 112, 121>>), (<<42, 46, 109, 100>>)>>, FALSE)}
ExtraSources ==
    {None,
     IgnoreSource(<<(<<116, 42, 46, 112, 121>>)>>, TRUE),
     IgnoreSource(<<(<<116, 42, 46, 112, 121>>)>>, FALSE)}
MaxFilesArgs == {0, 1, MAX_FILES}

\* One call of discover_local_files; it changes nothing
DiscoverLocalFiles(walk, max_files, gitignore, extra_ignore_patterns, follow_symlinks) ==
    /\ out.op = "none"
    /\ out' = [op |-> "discover_local_files", walk |-> walk, max_files |-> max_files,
               max_size |-> DEFAULT_MAX_FILE_SIZE, gitignore |-> gitignore,
               extra_ignore_patterns |-> extra_ignore_patterns,
               follow_symlinks |-> follow_symlinks,
               ret |-> discover_local_files(walk, max_files, DEFAULT_MAX_FILE_SIZE,
                                            gitignore, extra_ignore_patterns,
                                            follow_symlinks)]
    /\ UNCHANGED <<base, dirs>>

DiscoverNext ==
    \E walk \in Walks : \E max_files \in MaxFilesArgs :
      \E gitignore \in GitignoreSources : \E extra_ignore_patterns \in ExtraSources :
        \E follow_symlinks \in BOOLEAN :
          DiscoverLocalFiles(walk, max_files, gitignore, extra_ignore_patterns,
                             follow_symlinks)
          /\ UNCHANGED <<fs, mirror, last, lineage, w, r>>

SpecDiscover == SecurityInit /\ [][DiscoverNext]_vars

(***************************************************************************)
(* tools/index_folder.py: index_folder (SpecIngest)                        *)
(***************************************************************************)

\* rel_path as the path the store is given: the same text
RelPath(posix) == CHOOSE p \in Paths : PathChars(p) = posix

\* summarize_symbols without the external model: the summary of a symbol is
\* its docstring, or its signature when it has none
summarize_symbols(symbols) ==
    [i \in DOMAIN symbols |->
        [symbols[i] EXCEPT !.summary = IF symbols[i].docstring # ""
                                       THEN symbols[i].docstring
                                       ELSE symbols[i].signature]]

\* What the loop of index_folder does with one discovered file: "skip"
\* without a word, a warning, or "parsed" when parse_file returned symbols.
\* ingest tells, for the file, whether read_text or parse_file raises, and
\* the text read.
IngestStep(file, ingest) ==
    IF ~validate_path(file) THEN "skip"
    ELSE IF ingest.fails = "read" THEN "Failed to read"
    ELSE IF Suffix(file.posix) \notin DOMAIN LANGUAGE_EXTENSIONS THEN "skip"
    ELSE IF ingest.fails = "parse" THEN "Failed to parse"
    ELSE IF Parse(RelPath(file.posix), ingest.content) = <<>> THEN "skip"
    ELSE "parsed"

\* The language of a parsed file
LanguageOfPath(p) == LANGUAGE_EXTENSIONS[Suffix(PathChars(p))]

\* The result dict of index_folder after save_index returned saved, with
\* "warnings" only when there are some and "note" when discovery returned
\* max_files files
IngestResult(saved, source_files, parsed_files, all_symbols, languages, warnings) ==
    LET result == [success |-> TRUE,
                   repo |-> RepoLabel("local", Name),
                   indexed_at |-> load_index(saved.fsys, "local", Name).index.indexed_at,
                   file_count |-> Len(parsed_files),
                   symbol_count |-> Len(all_symbols),
                   languages |-> languages,
                   files |-> Take(parsed_files, 20)]
        extra == (IF warnings # <<>> THEN {"warnings"} ELSE {})
                   \cup (IF Len(source_files) >= 500 THEN {"note"} ELSE {})
    IN  [fsys |-> saved.fsys,
         ds |-> saved.ds,
         response |->
           [k \in DOMAIN result \cup extra |->
               IF k = "warnings" THEN warnings
               ELSE IF k = "note" THEN "Folder has many files; indexed first 500"
               ELSE result[k]]]

\* The end of index_folder: the error when no symbol was extracted, or the
\* save_index and the result
IngestSave(fsys, ds, source_files, parsed_files, raw_files, all_symbols, languages, warnings) ==
    IF all_symbols = <<>>
    THEN [fsys |-> fsys, ds |-> ds,
          response |-> [success |-> FALSE, error |-> "No symbols extracted from files"]]
    ELSE IngestResult(save_index(fsys, ds, "local", Name, parsed_files, all_symbols,
                                 raw_files, languages, None, "", Now),
                      source_files, parsed_files, all_symbols, languages, warnings)

\* What the loop leaves: parsed_files and raw_files of the files that gave
\* symbols, all_symbols, languages and the warnings
IngestParsed(fsys, ds, source_files, parsed_files, ingests, warnings) ==
    IngestSave(fsys, ds, source_files, parsed_files,
               [p \in SetOf(parsed_files) |-> ingests[p].content],
               summarize_symbols(
                   ParseAll(parsed_files, [p \in SetOf(parsed_files) |-> ingests[p].content])),
               [l \in {LanguageOfPath(p) : p \in SetOf(parsed_files)} |->
                   Cardinality({i \in DOMAIN parsed_files :
                                   LanguageOfPath(parsed_files[i]) = l})],
               warnings)

\* The loop of index_folder over the discovered files, steps[i] being what it
\* does with source_files[i]
IngestLoop(fsys, ds, source_files, found_warnings, ingests, steps) ==
    LET parsed == PickAt(source_files, [i \in DOMAIN source_files |-> steps[i] = "parsed"])
    IN  IngestParsed(fsys, ds, source_files,
                     [i \in DOMAIN parsed |-> RelPath(parsed[i].posix)],
                     ingests,
                     found_warnings
                       \o PickAt([i \in DOMAIN source_files |->
                                     [text |-> steps[i], path |-> source_files[i].posix]],
                                 [i \in DOMAIN source_files |->
                                     steps[i] \notin {"skip", "parsed"}]))

\* index_folder once discover_local_files returned found
IngestFound(fsys, ds, found, ingests) ==
    IF found.files = <<>>
    THEN [fsys |-> fsys, ds |-> ds,
          response |-> [success |-> FALSE, error |-> "No source files found"]]
    ELSE IngestLoop(fsys, ds, found.files, found.warnings, ingests,
                    [i \in DOMAIN found.files |->
                        IngestStep(found.files[i], ingests[RelPath(found.files[i].posix)])])

\* index_folder on a path that is missing, a file, or a folder ("dir") with
\* the given walk: the store it leaves and the response
index_folder(fsys, ds, kind, walk, ingests, extra_ignore_patterns, follow_symlinks) ==
    IF kind = "missing"
    THEN [fsys |-> fsys, ds |-> ds,
          response |-> [success |-> FALSE, error |-> "Folder not found"]]
    ELSE IF kind # "dir"
    THEN [fsys |-> fsys, ds |-> ds,
          response |-> [success |-> FALSE, error |-> "Path is not a directory"]]
    ELSE IngestFound(fsys, ds,
                     discover_local_files(walk, MAX_FILES, DEFAULT_MAX_FILE_SIZE, None,
                                          extra_ignore_patterns, follow_symlinks),
                     ingests)

\* The files of the folders indexed: a.py, b.py and secret_key.py
IngestFiles ==
    <<WalkedFile(<<97, 46, 112, 121>>, TRUE, FALSE, "inside", Some(10), None),
      WalkedFile(<<98, 46, 112, 121>>, TRUE, FALSE, "inside", Some(10), None),
      WalkedFile(<<115, 101, 99, 114, 101, 116, 95, 107, 101, 121, 46, 112, 121>>, TRUE, FALSE, "inside", Some(10), None)>>

\* The folders: any of these files, in this order
IngestWalks ==
    {PickAt(IngestFiles, [i \in DOMAIN IngestFiles |-> i \in S]) :
        S \in SUBSET DOMAIN IngestFiles}

\* A file whose read_text raises, one whose parse_file raises, and the texts
\* "fe'", "gf" and "e'" (the last without a declaration)
IngestOutcomes ==
    {[fails |-> "read", content |-> <<>>], [fails |-> "parse", content |-> <<102, 233>>]}
        \cup {[fails |-> "none", content |-> c] : c \in {<<102, 233>>, <<103, 102>>, <<233>>}}

\* One call of index_folder on an empty store
IndexFolder(kind, walk, ingests) ==
    LET res == index_folder(base, dirs, kind, walk, ingests, None, FALSE)
    IN  /\ out.op = "none"
        /\ kind # "dir" => walk = <<>>
        /\ base' = res.fsys
        /\ dirs' = res.ds
        /\ out' = [op |-> "index_folder", kind |-> kind, walk |-> walk,
                   ingests |-> ingests, response |-> res.response]

IngestNext ==
    \E kind \in {"missing", "file", "dir"} : \E walk \in IngestWalks :
      \E ingests \in [Paths -> IngestOutcomes] :
        IndexFolder(kind, walk, ingests) /\ UNCHANGED <<fs, mirror, last, lineage, w, r>>

SpecIngest == SecurityInit /\ [][IngestNext]_vars

(***************************************************************************)
(* Properties of the store, call by call (Spec)                            *)
(***************************************************************************)

\* The manifest document on disk and what load_index makes of it
ManifestData == fs[IndexPath(Owner, Name)][1].data
Loaded == load_index(fs, Owner, Name)

\* The files present in the mirror directory
MirrorFiles == {p \in Paths : mirror[p] # None}

\* The symbols of one file, in manifest order
SymbolsOfFile(symbols, file) == SelectSeq(symbols, LAMBDA s : s.file = file)

\* What get_symbol_content returns for a symbol is a text whose UTF-8 form has
\* byte_length bytes and hashes to content_hash
ByteExact(s) ==
    LET c == get_symbol_content(fs, mirror, Owner, Name, s.id)
    IN  /\ c.tag = "ok"
        /\ Len(Encode(c.text)) = s.byte_length
        /\ Sha256(Encode(c.text)) = s.content_hash

\* C1: in every index that save_index and incremental_save calls leave, with
\* the supplied symbols computed from the supplied raw content, every symbol
\* of the manifest is retrieved byte-exactly.
C1_ByteExactRetrieval ==
    Loaded.tag = "ok" =>
        \A i \in DOMAIN Loaded.index.symbols : ByteExact(Loaded.index.symbols[i])

C6_IdsUnique ==
    Loaded.tag = "ok" =>
        \A i, j \in DOMAIN Loaded.index.symbols :
            i # j => Loaded.index.symbols[i].id # Loaded.index.symbols[j].id

\* C7: against an existing index detect_changes returns three disjoint sets:
\* changed = the paths in both maps whose current hash differs from the stored
\* one, new = the paths only in current_files, deleted = the paths only in the
\* stored map; a path in both with equal hash is in none.
C7_DetectChangesPartition ==
    Loaded.tag = "ok" =>
        \A files \in FileMaps :
            LET d == detect_changes(fs, Owner, Name, files)
                stored == Get(ManifestData, "file_hashes", <<>>)
                both == DOMAIN stored \cap DOMAIN files
            IN  /\ d.changed = {p \in both : Sha256(Encode(files[p])) # stored[p]}
                /\ d.new = DOMAIN files \ DOMAIN stored
                /\ d.deleted = DOMAIN stored \ DOMAIN files
                /\ d.changed \cap d.new = {}
                /\ d.changed \cap d.deleted = {}
                /\ d.new \cap d.deleted = {}
                /\ \A p \in both :
                     Sha256(Encode(files[p])) = stored[p]
                         => p \notin d.changed \cup d.new \cup d.deleted

\* C7 witness: a reindexing round whose detect_changes found a changed file and
\* a new one, and left an index against which some files have a deleted path
\* and an unchanged one
C7_Witness ==
    /\ last.op = "reindex"
    /\ last.prior = "loadable"
    /\ last.delta.changed # {}
    /\ last.delta.new # {}
    /\ Loaded.tag = "ok"
    /\ \E files \in FileMaps :
         LET d == detect_changes(fs, Owner, Name, files)
         IN  /\ d.deleted # {}
             /\ DOMAIN files \ (d.changed \cup d.new) # {}

\* C8: load_index returns None for a manifest whose index_version is above 2,
\* and the index, with the stored version (1 when absent), otherwise; on a
\* manifest above 2 detect_changes reports every path new and incremental_save
\* returns None and leaves it.
C8_SchemaGating ==
    fs[IndexPath(Owner, Name)] # None =>
        LET version == Get(ManifestData, "index_version", 1)
        IN  /\ version > 2 =>
                /\ Loaded.tag = "none"
                /\ \A files \in FileMaps :
                     detect_changes(fs, Owner, Name, files)
                         = [tag |-> "ok", changed |-> {}, new |-> DOMAIN files,
                            deleted |-> {}]
            /\ version <= 2 =>
                /\ Loaded.tag = "ok"
                /\ Loaded.index.index_version = version
                /\ Loaded.index.source_files = ManifestData.source_files
                /\ Loaded.index.symbols = ManifestData.symbols
                /\ Loaded.index.file_hashes = Get(ManifestData, "file_hashes", <<>>)
            /\ (last.op = "reindex" /\ last.prior = "future") =>
                /\ last.ret = None
                /\ last.delta.new = DOMAIN last.files
                /\ version > 2

\* C8 witness: a reindexing round has run against a manifest of a newer schema
C8_Witness ==
    /\ last.op = "reindex"
    /\ last.prior = "future"
    /\ last.files # <<>>
    /\ fs[IndexPath(Owner, Name)] # None

\* C9: a save_index over a manifest of a newer schema replaces it: load_index
\* then returns the index just saved, with index_version 2 and the source
\* files, symbols and hashes of the saved files only.
C9_ResaveRecovers ==
    (last.op = "save_index" /\ last.prior = "future") =>
        /\ Loaded.tag = "ok"
        /\ Loaded.index = last.ret[1]
        /\ Loaded.index.index_version = 2
        /\ SetOf(Loaded.index.source_files) = DOMAIN last.files
        /\ Loaded.index.symbols
               = SymbolDicts(ParseAll(Loaded.index.source_files, last.files))
        /\ \A p \in DOMAIN Loaded.index.file_hashes :
             /\ p \in DOMAIN last.files
             /\ Loaded.index.file_hashes[p] = Sha256(Encode(last.files[p]))

\* C9 witness: files with symbols were saved over a manifest of a newer schema
C9_Witness ==
    /\ last.op = "save_index"
    /\ last.prior = "future"
    /\ Loaded.tag = "ok"
    /\ Loaded.index.symbols # <<>>

\* C10: after completed save_index and incremental_save calls the files in the
\* mirror directory are exactly the manifest's source_files.
C10_MirrorMatchesSourceFiles ==
    fs[IndexPath(Owner, Name)] # None =>
        MirrorFiles = SetOf(ManifestData.source_files)

\* Position of a path in ascending path order, and lists that ascend strictly
PathIndex(p) == CHOOSE i \in DOMAIN PathOrder : PathOrder[i] = p
IsAscending(list) ==
    \A i, j \in DOMAIN list : i < j => PathIndex(list[i]) < PathIndex(list[j])

\* C11: in every manifest written by save_index or incremental_save,
\* source_files is sorted ascending (the order search_text walks the files in).
C11_SourceFilesSorted ==
    (last.op \in {"save_index", "reindex"} /\ Loaded.tag = "ok") =>
        IsAscending(Loaded.index.source_files)

(***************************************************************************)
(* Properties of a reader racing one writer (SpecRace)                     *)
(***************************************************************************)

\* The manifest file before the writer's call and the one its call leaves
ManifestBefore == IF w.pc = "idle" THEN fs[IndexPath(Owner, Name)] ELSE w.before
ManifestAfter ==
    IF w.pc # "idle" /\ "index" \in DOMAIN w
    THEN Some(Full(_index_to_dict(w.index)))
    ELSE ManifestBefore

\* load_index of a given manifest file
LoadOf(file) == load_index([p \in BasePaths |-> file], Owner, Name)

\* The reader is past load_index
ReaderLoaded == r.pc \in {"read", "done"}

\* The reader has read mirror bytes, and the writer had returned by then
ReadAfterWriter ==
    r.pc = "done" /\ r.result.tag = "ok" /\ r.w_at_read \in {"idle", "done"}

\* The bytes the reader read hash to the content_hash of the symbol it looked up
BytesMatch == compute_content_hash(r.bytes) = r.symbol.content_hash

\* The record the reader looked up is one the writer's call supplied, read
\* from the manifest that call wrote
LookedUpSupplied ==
    /\ w.pc # "idle"
    /\ "index" \in DOMAIN w
    /\ r.loaded = LoadOf(ManifestAfter)
    /\ r.symbol \in SetOf(w.supplied)

\* C2: within one save_index or incremental_save call the manifest is renamed
\* over {owner}-{name}.json only after every mirror write and deletion of the
\* call: once renamed, none is outstanding.
C2_RenameAfterMirror ==
    (w.pc # "idle" /\ w.renamed) =>
        /\ w.written = DOMAIN w.raw_files
        /\ w.unlinked = w.deleted

\* C3: whenever load_index runs against one writer, it returns the complete
\* previous manifest or the complete new one, never a partial file.
C3_AtomicManifest ==
    ReaderLoaded =>
        /\ r.loaded.tag # "raised"
        /\ r.loaded \in {LoadOf(ManifestBefore), LoadOf(ManifestAfter)}

\* C3 witness: the reader opened the manifest before the rename and parsed it
\* after, getting the previous manifest although a different one is in place
C3_Witness ==
    /\ ReaderLoaded
    /\ r.detached
    /\ w.pc # "idle"
    /\ w.renamed
    /\ r.loaded.tag = "ok"
    /\ r.loaded = LoadOf(ManifestBefore)
    /\ r.loaded # LoadOf(ManifestAfter)

StLoad(k) == load_index(base, k[1], k[2])
StMirror(k) == MirrorOf(dirs, k[1], k[2])

\* The dict of a tool response is an {"error": ...} object
IsError(response) == ~response.raised /\ "error" \in DOMAIN response.value

\* C12: whatever the manifest file of a repo is (absent, current, of a newer
\* schema, malformed JSON, JSON that is no manifest), get_symbol_content and
\* detect_changes return a value and get_symbol, get_symbols and
\* get_repo_outline return a dict: none of them raises.
C12_NeverThrows ==
    \A k \in RepoKeys :
        /\ \A symbol_id \in SymbolIds :
             get_symbol_content(base, StMirror(k), k[1], k[2], symbol_id).tag # "raised"
        /\ \A files \in StoreFileMaps(k) :
             detect_changes(base, k[1], k[2], files).tag # "raised"
        /\ \A listing \in Listings : \A symbol_id \in ToolSymbolIds :
             LET repo == [owner |-> k[1], name |-> k[2]]
             IN  /\ ~tool_get_symbol(base, dirs, listing, repo, symbol_id, TRUE).raised
                 /\ ~tool_get_symbols(base, dirs, listing, repo, <<symbol_id>>).raised
                 /\ ~tool_get_repo_outline(base, listing, repo).raised

\* C13: an incremental_save that found an index leaves a manifest whose
\* symbols are the prior symbols of the files that are neither changed nor
\* deleted, unchanged and in their prior order, followed by the new symbols in
\* the order given; the hash of every file in raw_files is the SHA-256 of its
\* new content, and the hashes of the files neither written nor deleted are
\* what they were.
C13_IncrementalFrame ==
    [][(out'.op = "incremental_save" /\ out'.tag = "ok") =>
          LET prior == load_index(base, out'.owner, out'.name).index
              after == load_index(base', out'.owner, out'.name).index
              gone == out'.changed_files \cup out'.deleted_files
              raw_files == out'.raw_files
              kept == SelectSeq(prior.symbols, LAMBDA s : s.file \notin gone)
          IN  /\ after.symbols = kept \o out'.new_symbols
              /\ \A i \in 1..Len(kept) : after.symbols[i].file \notin gone
              /\ \A fp \in DOMAIN raw_files :
                   /\ fp \in DOMAIN after.file_hashes
                   /\ after.file_hashes[fp] = Sha256(Encode(raw_files[fp]))
              /\ \A fp \in Paths \ (DOMAIN raw_files \cup out'.deleted_files) :
                   IF fp \in DOMAIN prior.file_hashes
                   THEN /\ fp \in DOMAIN after.file_hashes
                        /\ after.file_hashes[fp] = prior.file_hashes[fp]
                   ELSE fp \notin DOMAIN after.file_hashes]_vars

\* C13 witness: an incremental_save replaced the symbols of a changed file and
\* kept the symbols and the hash of another file, which precede the new ones
C13_Witness ==
    /\ out.op = "incremental_save"
    /\ out.tag = "ok"
    /\ out.changed_files # {}
    /\ out.changed_files \subseteq SetOf(out.prior_files)
    /\ out.new_symbols # <<>>
    /\ StLoad(<<out.owner, out.name>>).tag = "ok"
    /\ LET index == StLoad(<<out.owner, out.name>>).index
       IN  /\ Len(index.symbols) > Len(out.new_symbols)
           /\ index.symbols[1].file \notin DOMAIN out.raw_files
           /\ index.symbols[1].file \in DOMAIN index.file_hashes

C15_NoPriorNoChange ==
    [][(out'.op = "incremental_save"
          /\ load_index(base, out'.owner, out'.name).tag = "none") =>
          /\ out'.tag = "none"
          /\ base' = base
          /\ dirs' = dirs]_vars

\* C15 witness: incremental_save was given files to write for a repo whose
\* manifest is of a newer schema, and returned None
C15_Witness ==
    /\ out.op = "incremental_save"
    /\ out.tag = "none"
    /\ DOMAIN out.raw_files # {}
    /\ out.deleted_files # {}
    /\ base[IndexPath(out.owner, out.name)] # None
    /\ JsonLoad(base[IndexPath(out.owner, out.name)][1]).ok
    /\ JsonLoad(base[IndexPath(out.owner, out.name)][1]).data.index_version > INDEX_VERSION

\* The fields of a CodeIndex and of a stored symbol
IndexFields == {"repo", "owner", "name", "indexed_at", "source_files",
                "languages", "symbols", "index_version", "file_hashes", "git_head"}
SymbolFields == {"id", "file", "name", "qualified_name", "kind", "language",
                 "signature", "docstring", "summary", "decorators", "keywords",
                 "parent", "line", "end_line", "byte_offset", "byte_length",
                 "content_hash"}

\* C16: load_index after a save_index returns an index with the ten fields of
\* the CodeIndex that save_index returned, each equal, the symbols in the same
\* order with their 17 fields equal; and a manifest without file_hashes or
\* without git_head loads with an empty dict and an empty string.
C16_RoundTrip ==
    /\ out.op = "save_index" =>
          LET l == StLoad(<<out.owner, out.name>>)
          IN  /\ l.tag = "ok"
              /\ DOMAIN l.index = IndexFields
              /\ DOMAIN out.ret = IndexFields
              /\ \A f \in IndexFields \ {"symbols"} : l.index[f] = out.ret[f]
              /\ Len(l.index.symbols) = Len(out.ret.symbols)
              /\ \A i \in DOMAIN out.ret.symbols :
                   /\ DOMAIN l.index.symbols[i] = SymbolFields
                   /\ \A f \in SymbolFields :
                        l.index.symbols[i][f] = out.ret.symbols[i][f]
    /\ \A k \in RepoKeys :
          StLoad(k).tag = "ok" =>
              LET data == JsonLoad(base[IndexPath(k[1], k[2])][1]).data
              IN  /\ "file_hashes" \notin DOMAIN data =>
                        DOMAIN StLoad(k).index.file_hashes = {}
                  /\ "git_head" \notin DOMAIN data => StLoad(k).index.git_head = ""

\* C16 witness: a save_index with a git_head, file hashes and a symbol that
\* has a parent has returned
C16_Witness ==
    /\ out.op = "save_index"
    /\ out.ret.git_head = "c0ffee"
    /\ DOMAIN out.ret.file_hashes # {}
    /\ \E i \in DOMAIN out.ret.symbols : out.ret.symbols[i].parent # None
    /\ StLoad(<<out.owner, out.name>>).tag = "ok"

\* The manifest file of the repo is absent or of a newer schema
NoUsableManifest(k) ==
    LET f == base[IndexPath(k[1], k[2])]
    IN  \/ f = None
        \/ /\ JsonLoad(f[1]).ok
           /\ Get(JsonLoad(f[1]).data, "index_version", 1) > INDEX_VERSION

\* The bytes are not the UTF-8 encoding of a text
InvalidUtf8(bytes) == Encode(Decode(bytes)) # bytes

\* C17: get_symbol_content returns None when the manifest is absent or of a
\* newer schema, the id is not in the manifest, or the symbol's file is not in
\* the mirror; in every other case it returns a text, with U+FFFD where the
\* bytes of the range are not valid UTF-8.
C17_ContentOrNone ==
    \A k \in RepoKeys : \A symbol_id \in SymbolIds :
        LET c == get_symbol_content(base, StMirror(k), k[1], k[2], symbol_id)
            l == StLoad(k)
            missing ==
                \/ NoUsableManifest(k)
                \/ /\ l.tag = "ok"
                   /\ \/ get_symbol(l.index, symbol_id) = None
                      \/ StMirror(k)[get_symbol(l.index, symbol_id)[1].file] = None
        IN  IF missing THEN c.tag = "none"
            ELSE /\ c.tag = "ok"
                 /\ LET symbol == get_symbol(l.index, symbol_id)[1]
                        bytes == ReadAt(StMirror(k)[symbol.file][1],
                                        symbol.byte_offset, symbol.byte_length)
                    IN  InvalidUtf8(bytes) => \E i \in DOMAIN c.text : c.text[i] = 65533

\* The same on the states in which json.load and the lookups of load_index
\* succeed for the repo: there the statement of C17 holds
C17_OnReadableManifests ==
    \A k \in RepoKeys : \A symbol_id \in SymbolIds :
        LET c == get_symbol_content(base, StMirror(k), k[1], k[2], symbol_id)
            l == StLoad(k)
        IN  l.tag # "raised" =>
              IF \/ NoUsableManifest(k)
                 \/ get_symbol(l.index, symbol_id) = None
                 \/ StMirror(k)[get_symbol(l.index, symbol_id)[1].file] = None
              THEN c.tag = "none"
              ELSE /\ c.tag = "ok"
                   /\ LET symbol == get_symbol(l.index, symbol_id)[1]
                          bytes == ReadAt(StMirror(k)[symbol.file][1],
                                          symbol.byte_offset, symbol.byte_length)
                      IN  InvalidUtf8(bytes) =>
                              \E i \in DOMAIN c.text : c.text[i] = 65533

\* A state in which get_symbol_content decodes bytes that are not valid UTF-8
C17_InvalidBytesRead ==
    \E k \in RepoKeys : \E symbol_id \in SymbolIds :
        /\ StLoad(k).tag = "ok"
        /\ get_symbol(StLoad(k).index, symbol_id) # None
        /\ LET symbol == get_symbol(StLoad(k).index, symbol_id)[1]
           IN  /\ StMirror(k)[symbol.file] # None
               /\ InvalidUtf8(ReadAt(StMirror(k)[symbol.file][1],
                                     symbol.byte_offset, symbol.byte_length))

\* C18: delete_index leaves neither the manifest nor the content directory of
\* the repo and returns whether one of them existed; after it load_index and
\* get_symbol_content return None, list_repos has no entry of the repo and a
\* second delete_index returns false. invalidate_cache answers success true
\* exactly when delete_index removed something, and leaves the same store.
C18_DeleteIndex ==
    [][/\ out'.op = "delete_index" =>
            LET o == out'.owner
                n == out'.name
            IN  /\ base'[IndexPath(o, n)] = None
                /\ dirs'[ContentDir(o, n)] = None
                /\ out'.ret = (base[IndexPath(o, n)] # None \/ dirs[ContentDir(o, n)] # None)
                /\ load_index(base', o, n).tag = "none"
                /\ \A symbol_id \in SymbolIds :
                     get_symbol_content(base', MirrorOf(dirs', o, n), o, n,
                                        symbol_id).tag = "none"
                /\ \A listing \in Listings :
                     \A i \in DOMAIN list_repos(base', listing) :
                        list_repos(base', listing)[i].repo # RepoLabel(o, n)
                /\ ~delete_index(base', dirs', o, n).ret
       /\ (out'.op = "invalidate_cache" /\ "owner" \in DOMAIN out'.repo) =>
            LET o == out'.repo.owner
                n == out'.repo.name
            IN  /\ ~out'.response.raised
                /\ out'.response.value.success =
                       (base[IndexPath(o, n)] # None \/ dirs[ContentDir(o, n)] # None)
                /\ base'[IndexPath(o, n)] = None
                /\ dirs'[ContentDir(o, n)] = None
       /\ (out'.op = "invalidate_cache" /\ "owner" \notin DOMAIN out'.repo
             /\ "success" \in DOMAIN out'.response.value) =>
            LET k == SplitLabel(out'.response.value.repo)
            IN  /\ out'.response.value.success
                /\ base[IndexPath(k[1], k[2])] # None
                /\ base'[IndexPath(k[1], k[2])] = None
                /\ dirs'[ContentDir(k[1], k[2])] = None]_vars

\* C18 witness: delete_index removed the manifest and the files of a repo
\* while the other repo stays listed
C18_Witness ==
    /\ out.op = "delete_index"
    /\ out.ret
    /\ base[IndexPath(out.owner, out.name)] = None
    /\ dirs[ContentDir(out.owner, out.name)] = None
    /\ \E listing \in Listings : list_repos(base, listing) # <<>>

\* A file of the base directory holds JSON with the keys list_repos reads
ParsesAsManifest(file) ==
    JsonLoad(file).ok /\ ListKeys \subseteq DOMAIN JsonLoad(file).data

\* C19: list_repos returns, in the order of the directory listing, one entry
\* for every {owner}-{name}.json that parses as a manifest and nothing else:
\* a .json file that is malformed or lacks a key gives no entry, and neither
\* does a {owner}-{name}.json.tmp.
C19_ListRepos ==
    \A listing \in Listings :
        LET repos == list_repos(base, listing)
            good == SelectSeq(listing,
                              LAMBDA p : /\ \E k \in RepoKeys : p = IndexPath(k[1], k[2])
                                         /\ base[p] # None
                                         /\ ParsesAsManifest(base[p][1]))
        IN  /\ Len(repos) = Len(good)
            /\ \A i \in DOMAIN good :
                 LET data == base[good[i]][1].data
                 IN  /\ repos[i].repo = data.repo
                     /\ repos[i].indexed_at = data.indexed_at
                     /\ repos[i].symbol_count = Len(data.symbols)
                     /\ repos[i].file_count = Len(data.source_files)
                     /\ repos[i].languages = data.languages
                     /\ repos[i].index_version = Get(data, "index_version", 1)
            /\ \A k \in RepoKeys :
                 (base[IndexPath(k[1], k[2])] = None
                    \/ ~ParsesAsManifest(base[IndexPath(k[1], k[2])][1])) =>
                     \A i \in DOMAIN repos : repos[i].repo # RepoLabel(k[1], k[2])

\* C19 witness: list_repos ran on a directory with a malformed manifest, a
\* whole temporary manifest of a repo that has no manifest, and returned
\* nothing
C19_Witness ==
    /\ out.op = "list_repos"
    /\ out.ret = <<>>
    /\ base[IndexPath(Primary[1], Primary[2])] = Some(Partial)
    /\ base[IndexPath(Secondary[1], Secondary[2])] = None
    /\ base[TmpPath(Secondary[1], Secondary[2])] # None
    /\ ParsesAsManifest(base[TmpPath(Secondary[1], Secondary[2])][1])

\* C20: called with a bare name that no stored repo label, or more than one,
\* ends with, a tool returns an {"error": ...} object and works on no repo.
C20_BareNameUnique ==
    \A listing \in Listings : \A n \in Names \cup {"lib"} :
        LET repo == [name |-> n]
            matching == SelectSeq(list_repos(base, listing),
                                  LAMBDA e : EndsWithName(e.repo, n))
            inv == tool_invalidate_cache(base, dirs, listing, repo)
        IN  Len(matching) # 1 =>
              /\ \A symbol_id \in ToolSymbolIds :
                   /\ IsError(tool_get_symbol(base, dirs, listing, repo, symbol_id, TRUE))
                   /\ IsError(tool_get_symbols(base, dirs, listing, repo, <<symbol_id>>))
              /\ IsError(tool_get_repo_outline(base, listing, repo))
              /\ IsError(inv.response)
              /\ inv.fsys = base
              /\ inv.ds = dirs

\* The calls of the query tools that SpecStore makes
ToolOps == {"get_symbol", "get_symbols", "get_repo_outline", "tool_list_repos",
            "invalidate_cache"}

\* C21: the dict a query tool returned has a _meta object with timing_ms.
C21_MetaAlways ==
    (out.op \in ToolOps /\ ~out.response.raised) =>
        /\ "_meta" \in DOMAIN out.response.value
        /\ "timing_ms" \in DOMAIN out.response.value._meta

\* The id lists of the get_symbols calls that are looked at: every list
\* without repetition of three ids (one of them in no manifest), and lists
\* that ask for an id twice
RequestIds == {"a.py::f#function", "b.py::g#function", "a.py::g#function"}
RequestLists ==
    UNION {ListsOf(S) : S \in SUBSET RequestIds}
        \cup {<<a, a>> : a \in RequestIds}
        \cup {<<a, b, a>> : a \in RequestIds, b \in RequestIds}

\* The "id" entries of a list of dicts
IdsOf(dicts) == [i \in DOMAIN dicts |-> dicts[i].id]

\* C22: for a repo whose index loads and any list of requested ids,
\* get_symbols returns in symbols the requested ids that are in the manifest
\* and in errors the others, each list in the order of the requests, every
\* request in exactly one of them; _meta.symbol_count is len(symbols).
C22_GetSymbolsSplit ==
    \A k \in RepoKeys :
        StLoad(k).tag = "ok" =>
            \A symbol_ids \in RequestLists :
                LET response == tool_get_symbols(base, dirs, FilesOfKeys(<<Primary, Secondary>>),
                                                 [owner |-> k[1], name |-> k[2]],
                                                 symbol_ids)
                    Known(id) == get_symbol(StLoad(k).index, id) # None
                IN  /\ ~response.raised
                    /\ IdsOf(response.value.symbols)
                          = SelectSeq(symbol_ids, LAMBDA id : Known(id))
                    /\ IdsOf(response.value.errors)
                          = SelectSeq(symbol_ids, LAMBDA id : ~Known(id))
                    /\ Len(response.value.symbols) + Len(response.value.errors)
                          = Len(symbol_ids)
                    /\ response.value._meta.symbol_count = Len(response.value.symbols)

\* C22 witness: a get_symbols call returned one symbol and one error
C22_Witness ==
    /\ out.op = "get_symbols"
    /\ ~out.response.raised
    /\ "symbols" \in DOMAIN out.response.value
    /\ Len(out.response.value.symbols) = 1
    /\ Len(out.response.value.errors) = 1
    /\ Len(out.symbol_ids) = 2

(***************************************************************************)
(* Properties of the search calls (SpecSearch)                              *)
(***************************************************************************)

\* The query as the scorer sees it
QueryLower == Lower(out.query)
QueryWords == SetOf(Split(QueryLower))

\* The query words that occur in a lowercased text field of a symbol
WordsIn(sym, field) == {word \in QueryWords : Contains(Lower(sym[field]), word)}

\* The sum of the contribution table for a symbol and the query of the call
TableScore(sym) ==
    (IF QueryLower = Lower(sym.name) THEN 20
     ELSE IF Contains(Lower(sym.name), QueryLower) THEN 10 ELSE 0)
    + 5 * Cardinality(WordsIn(sym, "name"))
    + (IF Contains(Lower(sym.signature), QueryLower) THEN 8 ELSE 0)
    + 2 * Cardinality(WordsIn(sym, "signature"))
    + (IF Contains(Lower(sym.summary), QueryLower) THEN 5 ELSE 0)
    + Cardinality(WordsIn(sym, "summary"))
    + 3 * Cardinality({word \in QueryWords : \E i \in DOMAIN sym.keywords : sym.keywords[i] = word})
    + Cardinality(WordsIn(sym, "docstring"))

\* C23: the score of a symbol for a query is the sum of the contribution
\* table (20 or 10 for the name, 5 per query word in the name, 8 and 2 per
\* word for the signature, 5 and 1 per word for the summary, 3 per query word
\* among the keywords, 1 per word in the docstring); it is a natural number,
\* and a symbol without keywords gets nothing from the keyword row.
C23_ScoreTable ==
    out.op = "score" =>
        /\ out.score = TableScore(out.sym)
        /\ out.score \in Nat
        /\ out.sym.keywords = <<>> =>
               out.score = TableScore([out.sym EXCEPT !.keywords = <<(<<97>>), (<<98>>)>>])
                           - 3 * Cardinality(QueryWords \cap {<<97>>, <<98>>})

\* The name, the summary, a keyword and the docstring all contribute: "a b"
\* scored against the class "A b" gives 20 + 10 + 5 + 2 + 3 + 2
C23_Witness ==
    /\ out.op = "score"
    /\ out.query = <<97, 32, 98>>
    /\ out.sym.keywords # <<>>
    /\ out.score = 42

\* The symbols of the loaded index, and the score of one for the query of the
\* call
LoadedSymbols ==
    IF StLoad(Primary).tag = "ok" THEN SetOf(StLoad(Primary).index.symbols) ELSE {}
ScoreOf(sym) == _score_symbol(sym, QueryLower, QueryWords)

\* The three kinds of hit of the monotonicity rule
ExactName(sym) == Lower(sym.name) = QueryLower
SubstringName(sym) == Contains(Lower(sym.name), QueryLower) /\ Lower(sym.name) # QueryLower
SignatureOnly(sym) ==
    ~Contains(Lower(sym.name), QueryLower) /\ Contains(Lower(sym.signature), QueryLower)

\* Three symbols, one of each kind, that agree on the given fields
HitTriples(fields) ==
    {t \in LoadedSymbols \X LoadedSymbols \X LoadedSymbols :
        /\ ExactName(t[1]) /\ SubstringName(t[2]) /\ SignatureOnly(t[3])
        /\ \A field \in fields : t[1][field] = t[2][field] /\ t[2][field] = t[3][field]}

\* C24 as stated: of three symbols that agree on summary, docstring and
\* keywords, the exact-name hit scores strictly higher than the
\* substring-name hit, which scores strictly higher than the signature-only
\* hit.
C24_Monotone ==
    out.op = "score" =>
        \A t \in HitTriples({"summary", "docstring", "keywords"}) :
            ScoreOf(t[1]) > ScoreOf(t[2]) /\ ScoreOf(t[2]) > ScoreOf(t[3])

\* C24 amended: the strict order holds of three symbols that agree on the
\* signature as well as on summary, docstring and keywords.
C24_MonotoneSameSignature ==
    out.op = "score" =>
        \A t \in HitTriples({"signature", "summary", "docstring", "keywords"}) :
            ScoreOf(t[1]) > ScoreOf(t[2]) /\ ScoreOf(t[2]) > ScoreOf(t[3])

\* "a" was scored against the exact-name hit of such a triple: 35, over 25
\* and 10
C24_Witness ==
    /\ out.op = "score"
    /\ \E t \in HitTriples({"signature", "summary", "docstring", "keywords"}) :
          /\ t[1] = out.sym
          /\ out.score = 35 /\ ScoreOf(t[2]) = 25 /\ ScoreOf(t[3]) = 10

\* The filters of a search call: a kind or pattern that is None or empty is
\* no filter (the code tests "if kind", "if file_pattern"); a pattern matches
\* the path as a shell glob, or the end of it behind a "/"
PassesKind(sym, kind) == (kind # None /\ kind[1] # "") => sym.kind = kind[1]
PassesPattern(sym, file_pattern) ==
    (file_pattern # None /\ file_pattern[1] # <<>>) =>
        \/ FnMatch(PathChars(sym.file), file_pattern[1])
        \/ \E i \in 1..Len(PathChars(sym.file)) :
              /\ PathChars(sym.file)[i] = 47
              /\ FnMatch(SubSeq(PathChars(sym.file), i + 1, Len(PathChars(sym.file))),
                         file_pattern[1])
PassesLanguage(sym, language) ==
    (language # None /\ language[1] # "") => sym.language = language[1]

\* The place of a symbol in the manifest
ManifestPlace(sym) ==
    CHOOSE i \in DOMAIN StLoad(Primary).index.symbols :
        StLoad(Primary).index.symbols[i] = sym

\* A list of symbols is ranked: by score descending, equal scores in
\* manifest order
Ranked(list) ==
    \A i, j \in DOMAIN list :
        i < j =>
            \/ ScoreOf(list[i]) > ScoreOf(list[j])
            \/ /\ ScoreOf(list[i]) = ScoreOf(list[j])
               /\ ManifestPlace(list[i]) < ManifestPlace(list[j])

\* C25: CodeIndex.search returns exactly the symbols that pass the kind and
\* file_pattern filters and score above 0, each once, by score descending
\* and, among equal scores, in manifest order.
C25_SearchRanked ==
    out.op = "search" =>
        /\ SetOf(out.results) =
              {sym \in LoadedSymbols :
                  /\ PassesKind(sym, out.kind)
                  /\ PassesPattern(sym, out.file_pattern)
                  /\ ScoreOf(sym) > 0}
        /\ Cardinality(SetOf(out.results)) = Len(out.results)
        /\ Ranked(out.results)

\* A search for "a" among functions: a class that scores is filtered out, a
\* symbol that scores 0 is left out, two symbols tie and a later one of the
\* manifest is ranked first
C25_Witness ==
    /\ out.op = "search"
    /\ out.kind = Some("function")
    /\ \E sym \in LoadedSymbols : ScoreOf(sym) > 0 /\ sym.kind = "class"
    /\ \E sym \in LoadedSymbols : ScoreOf(sym) = 0 /\ sym.kind = "function"
    /\ \E i \in DOMAIN out.results : \E j \in DOMAIN out.results :
          i < j /\ ScoreOf(out.results[i]) = ScoreOf(out.results[j])
    /\ \E i \in DOMAIN out.results : \E j \in DOMAIN out.results :
          i < j /\ ManifestPlace(out.results[i]) > ManifestPlace(out.results[j])

\* The filtered ranking of a search_symbols call: the symbols that pass the
\* three filters and score above 0, ranked
FilteredRanking ==
    CHOOSE list \in ListsOf({sym \in LoadedSymbols :
                                /\ PassesKind(sym, out.kind)
                                /\ PassesPattern(sym, out.file_pattern)
                                /\ PassesLanguage(sym, out.language)
                                /\ ScoreOf(sym) > 0}) : Ranked(list)

\* C26: search_symbols returns at most max_results hits (max_results >= 0);
\* every hit passes the kind, file_pattern and language filters given; the
\* hits are the first max_results entries of the filtered ranking, each with
\* its score; and _meta.truncated is true iff the filtered ranking has more
\* entries than were returned.
C26_SearchSymbolsCap ==
    (/\ out.op = "search_symbols"
     /\ StLoad(Primary).tag = "ok"
     /\ out.max_results >= 0) =>
        LET value == out.response.value
            hits == value.results
        IN  /\ ~out.response.raised
            /\ Len(hits) <= out.max_results
            /\ value.result_count = Len(hits)
            /\ \A i \in DOMAIN hits :
                  \E sym \in LoadedSymbols :
                      /\ sym.id = hits[i].id /\ sym.file = hits[i].file
                      /\ PassesKind(sym, out.kind)
                      /\ PassesPattern(sym, out.file_pattern)
                      /\ PassesLanguage(sym, out.language)
            /\ Len(hits) = (IF Len(FilteredRanking) < out.max_results
                            THEN Len(FilteredRanking) ELSE out.max_results)
            /\ \A i \in DOMAIN hits :
                  /\ hits[i].id = FilteredRanking[i].id
                  /\ hits[i].score = ScoreOf(FilteredRanking[i])
            /\ value._meta.truncated = (Len(FilteredRanking) > Len(hits))

\* A call that cut a ranking of three python functions down to two
C26_Witness ==
    /\ out.op = "search_symbols"
    /\ ~out.response.raised
    /\ "results" \in DOMAIN out.response.value
    /\ out.max_results = 2
    /\ out.language = Some("python")
    /\ out.kind = Some("function")
    /\ Len(out.response.value.results) = 2
    /\ Len(FilteredRanking) = 3
    /\ out.response.value._meta.truncated

\* The files search_text sweeps: the source files of the manifest that pass
\* the pattern and exist under the content directory
SweptFiles ==
    SelectSeq(StLoad(Primary).index.source_files,
              LAMBDA f :
                  /\ PassesPattern([file |-> f], out.file_pattern)
                  /\ FileAt(StMirror(Primary), f) # None)

\* The lines of the swept files, and the places <<file, line number>> whose
\* line contains the query, whatever its case
SweptLines(swept) ==
    [j \in DOMAIN swept |-> SplitLines(Decode(FileAt(StMirror(Primary), swept[j])[1]))]
MatchingLines(lines) ==
    {place \in UNION {{j} \X DOMAIN lines[j] : j \in DOMAIN lines} :
        Contains(Lower(lines[place[1]][place[2]]), QueryLower)}
Earlier(p, q) == p[1] < q[1] \/ (p[1] = q[1] /\ p[2] < q[2])

\* The returned matches are the first n of the matching lines, in order
FirstMatches(results, n, swept, matching) ==
    LET PlaceOf(result) ==
            <<CHOOSE j \in DOMAIN swept : swept[j] = result.file, result.line>>
    IN  /\ Len(results) = (IF Cardinality(matching) < n THEN Cardinality(matching) ELSE n)
        /\ \A i \in DOMAIN results :
              /\ \E j \in DOMAIN swept : swept[j] = results[i].file
              /\ PlaceOf(results[i]) \in matching
              /\ \A m \in matching :
                    Earlier(m, PlaceOf(results[i])) =>
                        \E k \in 1..(i - 1) : PlaceOf(results[k]) = m
        /\ \A i, j \in DOMAIN results :
              i < j => Earlier(PlaceOf(results[i]), PlaceOf(results[j]))

\* C27: for every max_results >= 0 search_text returns at most max_results
\* matches; they are the first lines, in source_files order and then by
\* line number, that contain the query case-insensitively; and
\* _meta.truncated is true when the cap was hit.
C27_SearchTextCap ==
    (/\ out.op = "search_text"
     /\ StLoad(Primary).tag = "ok"
     /\ out.max_results >= 0) =>
        LET value == out.response.value
            swept == SweptFiles
            matching == MatchingLines(SweptLines(swept))
        IN  /\ ~out.response.raised
            /\ Len(value.results) <= out.max_results
            /\ FirstMatches(value.results, out.max_results, swept, matching)
            /\ Len(value.results) = out.max_results => value._meta.truncated

\* From max_results = 1 on the cap holds
C27_CapFromOne ==
    (/\ out.op = "search_text"
     /\ StLoad(Primary).tag = "ok"
     /\ out.max_results >= 1) =>
        LET value == out.response.value
            swept == SweptFiles
            matching == MatchingLines(SweptLines(swept))
        IN  /\ ~out.response.raised
            /\ Len(value.results) <= out.max_results
            /\ FirstMatches(value.results, out.max_results, swept, matching)
            /\ Len(value.results) = out.max_results => value._meta.truncated

\* With max_results = 0 one match is returned
C27_OneForZero ==
    /\ out.op = "search_text"
    /\ out.max_results = 0
    /\ ~out.response.raised
    /\ "results" \in DOMAIN out.response.value
    /\ Len(out.response.value.results) = 1

(***************************************************************************)
(* Properties of parses with repeated declarations (SpecParse)              *)
(***************************************************************************)

\* The symbols of one file in the index the last call returned
ParsedOf(fp) == SelectSeq(last.ret[1].symbols, LAMBDA s : s.file = fp)

\* The id a symbol computes, and the symbols of a list that compute the same
ComputedId(s) == make_symbol_id(s.file, s.qualified_name, s.kind)
GroupOf(symbols, s) == {t \in SetOf(symbols) : ComputedId(t) = ComputedId(s)}

\* C28: in the parse of a file, the k > 1 symbols that compute one id get
\* that id with "~1" ... "~k" in source order, a symbol that shares its
\* computed id with no other keeps it bare, and the ids of the parse are
\* pairwise distinct.
C28_OverloadSuffixes ==
    (last.op = "save_index") =>
        \A fp \in DOMAIN last.files :
            LET symbols == ParsedOf(fp)
            IN  /\ symbols = Parse(fp, last.files[fp])
                /\ \A i \in DOMAIN symbols :
                      LET s == symbols[i]
                          before == {t \in GroupOf(symbols, s) : t.byte_offset < s.byte_offset}
                      IN  IF Cardinality(GroupOf(symbols, s)) > 1
                          THEN s.id = ComputedId(s) \o "~" \o ToString(Cardinality(before) + 1)
                          ELSE s.id = ComputedId(s)
                /\ \A i, j \in DOMAIN symbols : symbols[i].id = symbols[j].id => i = j

\* A file "fgf" was parsed: f~1, g, f~2
C28_Witness ==
    /\ last.op = "save_index"
    /\ \E fp \in DOMAIN last.files :
          /\ last.files[fp] = <<102, 103, 102>>
          /\ [i \in DOMAIN ParsedOf(fp) |-> ParsedOf(fp)[i].id] =
                <<make_symbol_id(fp, "f", "function") \o "~1",
                  make_symbol_id(fp, "g", "function"),
                  make_symbol_id(fp, "f", "function") \o "~2">>

\* The symbols of the manifest of the repo, if it loads
ManifestSymbols ==
    IF load_index(fs, Owner, Name).tag = "ok"
    THEN SetOf(load_index(fs, Owner, Name).index.symbols) ELSE {}

\* C29: in the index left by any sequence of save_index and incremental_save
\* calls on parsed files, the parent of every symbol that has one is the id
\* of a symbol of the same index and the same file.
C29_ParentExists ==
    \A s \in ManifestSymbols :
        s.parent # None =>
            \E t \in ManifestSymbols : t.id = s.parent[1] /\ t.file = s.file

\* Without a repeated declaration in the file the parent is there
C29_ParentExistsUnlessRepeated ==
    \A s \in ManifestSymbols :
        (/\ s.parent # None
         /\ \A t, u \in ManifestSymbols :
               (t.file = s.file /\ u.file = s.file /\ ComputedId(t) = ComputedId(u)) => t = u) =>
            \E t \in ManifestSymbols : t.id = s.parent[1] /\ t.file = s.file

(***************************************************************************)
(* Properties of should_exclude_file (SpecSecurity)                         *)
(***************************************************************************)

\* The checks in their order, each with its reason; the size check gives one
\* of two reasons
CheckOrder == <<"symlink_escape", "path_traversal", "outside_root", "secret_file", "size", "binary_extension">>

\* Whether a check is enabled in the call, and whether the file fails it
CheckEnabled(check) ==
    CASE check = "symlink_escape" -> out.check_symlinks
      [] check = "secret_file" -> out.check_secrets
      [] check = "binary_extension" -> out.check_binary
      [] OTHER -> TRUE
CheckFails(check) ==
    CASE check = "symlink_escape" -> out.file.symlink /\ out.file.resolves # "inside"
      [] check = "path_traversal" -> out.file.resolves # "inside"
      [] check = "outside_root" -> ~out.file.under_root
      [] check = "secret_file" -> is_secret_file(out.file.posix)
      [] check = "size" -> out.file.stat = None \/ out.file.stat[1] > out.max_file_size
      [] check = "binary_extension" -> is_binary_extension(out.file.posix)
ReasonOf(check) ==
    IF check # "size" THEN check
    ELSE IF out.file.stat = None THEN "unreadable" ELSE "file_too_large"
FailingChecks == {i \in DOMAIN CheckOrder : CheckEnabled(CheckOrder[i]) /\ CheckFails(CheckOrder[i])}

\* C30: should_exclude_file returns None iff the file passes every enabled
\* check, and otherwise the reason of the first failing enabled check in the
\* order symlink_escape, path_traversal, outside_root, secret_file,
\* file_too_large (size > max_file_size) or unreadable, binary_extension; a
\* check switched off by its flag never gives its reason.
C30_FirstFailingCheck ==
    out.op = "should_exclude_file" =>
        /\ (out.reason = None) <=> (FailingChecks = {})
        /\ FailingChecks # {} =>
              out.reason = Some(ReasonOf(CheckOrder[
                  CHOOSE i \in FailingChecks : \A j \in FailingChecks : i <= j]))
        /\ ~out.check_symlinks => out.reason # Some("symlink_escape")
        /\ ~out.check_secrets => out.reason # Some("secret_file")
        /\ ~out.check_binary => out.reason # Some("binary_extension")

\* A secret file with a binary extension, of exactly the size limit, checked
\* with the secret check off: the binary extension is the reason
C30_Witness ==
    /\ out.op = "should_exclude_file"
    /\ ~out.check_secrets /\ out.check_binary
    /\ is_secret_file(out.file.posix)
    /\ out.file.stat = Some(out.max_file_size)
    /\ out.reason = Some("binary_extension")

(***************************************************************************)
(* Further properties of the search calls (SpecSearch)                      *)
(***************************************************************************)

\* The symbol of the loaded index a hit was built from
SymbolOfHit(hit) == CHOOSE sym \in LoadedSymbols : sym.id = hit.id

\* C39: the score search_symbols reports for a hit is the score
\* CodeIndex.search ranked the symbol by, so the reported scores are all
\* positive and do not increase down the list.
C39_ReportedScores ==
    (/\ out.op = "search_symbols"
     /\ ~out.response.raised
     /\ "results" \in DOMAIN out.response.value) =>
        LET hits == out.response.value.results
        IN  /\ \A i \in DOMAIN hits :
                  /\ \E sym \in LoadedSymbols : sym.id = hits[i].id
                  /\ hits[i].score =
                        _score_symbol(SymbolOfHit(hits[i]), QueryLower, QueryWords)
                  /\ hits[i].score > 0
            /\ \A i, j \in DOMAIN hits : i < j => hits[i].score >= hits[j].score

\* Hits with a keyword, a summary and a docstring among them, of scores that
\* fall down the list
C39_Witness ==
    /\ out.op = "search_symbols"
    /\ ~out.response.raised
    /\ "results" \in DOMAIN out.response.value
    /\ Len(out.response.value.results) >= 3
    /\ \E i \in DOMAIN out.response.value.results :
          SymbolOfHit(out.response.value.results[i]).keywords # <<>>
    /\ out.response.value.results[1].score > out.response.value.results[3].score

(***************************************************************************)
(* Properties of get_symbol with verify (SpecVerify)                        *)
(***************************************************************************)

\* The symbol a get_symbol call returned, as the manifest holds it, and the
\* bytes the mirror now holds at its byte range
ReturnedSymbol == get_symbol(StLoad(Primary).index, out.symbol_id)[1]
BytesInRange ==
    ReadAt(StMirror(Primary)[ReturnedSymbol.file][1], ReturnedSymbol.byte_offset,
           ReturnedSymbol.byte_length)

\* get_symbol returned a symbol with its source
GotSource ==
    /\ out.op = "get_symbol"
    /\ ~out.response.raised
    /\ "source" \in DOMAIN out.response.value
    /\ out.response.value.source # <<>>

\* C33: get_symbol with verify=true on a symbol with a stored content_hash
\* and a non-empty source reports _meta.content_verified = true iff the bytes
\* the mirror holds at the byte range of the symbol hash to the stored
\* content_hash; with verify=false the flag is absent.
C33_VerifyFlag ==
    GotSource =>
        IF out.verify
        THEN /\ "content_verified" \in DOMAIN out.response.value._meta
             /\ out.response.value._meta.content_verified =
                    (Sha256(BytesInRange) = ReturnedSymbol.content_hash)
        ELSE "content_verified" \notin DOMAIN out.response.value._meta

\* When the bytes at the range are well-formed UTF-8 the flag tells whether
\* they hash to the stored hash
C33_VerifyFlagOnWellFormed ==
    (GotSource /\ Encode(Decode(BytesInRange)) = BytesInRange) =>
        IF out.verify
        THEN /\ "content_verified" \in DOMAIN out.response.value._meta
             /\ out.response.value._meta.content_verified =
                    (Sha256(BytesInRange) = ReturnedSymbol.content_hash)
        ELSE "content_verified" \notin DOMAIN out.response.value._meta

\* The flag is true although the bytes at the range are not the bytes the
\* stored hash was taken of
C33_VerifiedDifferentBytes ==
    /\ GotSource
    /\ out.verify
    /\ out.response.value._meta.content_verified
    /\ Sha256(BytesInRange) # ReturnedSymbol.content_hash

\* The flag is false on well-formed bytes that changed, and true right after
\* a save that wrote the mirror
C33_FalseOnChange ==
    /\ GotSource
    /\ out.verify
    /\ ~out.response.value._meta.content_verified
    /\ Encode(Decode(BytesInRange)) = BytesInRange

(***************************************************************************)
(* Properties of a store of repos with "-" in their names (SpecIsolation)  *)
(***************************************************************************)

\* The repo the call just made worked on
CalledRepo == <<out.owner, out.name>>

\* What load_index and get_symbol_content read for repo k is the same before
\* and after the step
SameFor(k) ==
    /\ load_index(base', k[1], k[2]) = load_index(base, k[1], k[2])
    /\ MirrorOf(dirs', k[1], k[2]) = MirrorOf(dirs, k[1], k[2])

\* C35: save_index, incremental_save and delete_index on one repo leave the
\* manifest and the mirror read for every other (owner, name) pair
\* unchanged, also when an owner or a name holds a "-".
C35_Isolation ==
    [][\A k \in IsolationKeys : CalledRepo' # k => SameFor(k)]_vars

\* C35 for the pairs whose "{owner}-{name}" differs from that of the repo
\* worked on: these are left unchanged.
C35_IsolationDistinctStems ==
    [][\A k \in IsolationKeys :
          ContentDir(k[1], k[2]) # ContentDir(out'.owner, out'.name) => SameFor(k)]_vars

\* A repo "a"/"b-c" whose manifest file holds the index of repo "a-b"/"c"
C35_SharedManifest ==
    /\ out.op = "save_index"
    /\ CalledRepo = <<"a-b", "c">>
    /\ load_index(base, "a", "b-c").tag = "ok"
    /\ load_index(base, "a", "b-c").index.owner = "a-b"
    /\ load_index(base, "a", "c").tag = "ok"

(***************************************************************************)
(* Properties of the stored hashes (SpecHashes)                            *)
(***************************************************************************)

\* Every path of file_hashes is a mirror file whose bytes hash to the stored
\* hash
HashesOfMirror(index, mir) ==
    \A p \in DOMAIN index.file_hashes :
        /\ p \in Paths
        /\ mir[p] # None
        /\ index.file_hashes[p] = Sha256(mir[p][1])

NoChanges == [tag |-> "ok", changed |-> {}, new |-> {}, deleted |-> {}]

C37_NothingSaved ==
    /\ last.op = "reindex"
    /\ last.ret = None
    /\ last.delta.new # {}
    /\ detect_changes(fs, Owner, Name, last.files) = last.delta

\* The step is an incremental_save with an empty delta, no new symbols and
\* no raw_files on a loadable index, the languages and git_head passed being
\* those of the manifest
EmptyDeltaStep ==
    /\ last'.op = "reindex"
    /\ last'.ret # None
    /\ last'.delta = NoChanges
    /\ LanguagesOf(DOMAIN last'.files) = Loaded.index.languages
    /\ GitHead = Loaded.index.git_head

\* The manifest fields of the index content other than source_files, and the
\* mirror files, are as before the step
SameContent ==
    /\ Loaded'.index.symbols = Loaded.index.symbols
    /\ Loaded'.index.file_hashes = Loaded.index.file_hashes
    /\ Loaded'.index.languages = Loaded.index.languages
    /\ Loaded'.index.git_head = Loaded.index.git_head
    /\ mirror' = mirror

\* C38: an incremental_save with an empty delta leaves the manifest's
\* symbols, source_files, file_hashes, languages and git_head and all mirror
\* files as they were.
C38_EmptyDeltaNoOp ==
    [][EmptyDeltaStep =>
          /\ SameContent
          /\ Loaded'.index.source_files = Loaded.index.source_files]_vars

\* C38 with source_files compared as a set: an empty delta leaves the other
\* fields and the mirror as they were, and source_files with the same paths,
\* in ascending order.
C38_EmptyDeltaSorts ==
    [][EmptyDeltaStep =>
          /\ SameContent
          /\ Loaded'.index.source_files
                = Sorted(SetOf(Loaded.index.source_files))]_vars

\* An empty delta has been applied to an index of two files with symbols
C38_Applied ==
    /\ last.op = "reindex"
    /\ last.ret # None
    /\ last.delta = NoChanges
    /\ Len(Loaded.index.source_files) = 2
    /\ Loaded.index.symbols # <<>>

(***************************************************************************)
(* Properties of call_tool (SpecDispatch)                                  *)
(***************************************************************************)

\* The name is one call_tool knows and the arguments hold what its branch
\* subscripts
Dispatched(name, arguments) ==
    /\ \E i \in DOMAIN ToolNames : ToolNames[i] = name
    /\ \A i \in DOMAIN RequiredArgs(name) : RequiredArgs(name)[i] \in DOMAIN arguments

\* The body is an object {"error": <message>}
ErrorBody(body) == DOMAIN body = {"error"}

\* C34: call_tool never lets an exception out: for every name and arguments
\* (an unknown name, a missing required argument, a tool that raises) it
\* returns one text content whose JSON body is the tool's result, or an
\* {"error": message} object.
C34_NeverPropagates ==
    [][out'.op = "call_tool" =>
          LET content == out'.response.value
              body == content[1].text.json
              run == RunTool(base, dirs, SearchListing, out'.name, out'.arguments,
                             out'.outcome)
          IN  /\ ~out'.response.raised
              /\ Len(content) = 1
              /\ content[1].type = "text"
              /\ IF ~Dispatched(out'.name, out'.arguments) THEN ErrorBody(body)
                 ELSE IF run.response.raised THEN ErrorBody(body)
                 ELSE body = run.response.value]_vars

\* A tool raised on a manifest that is no JSON, and the caller got an error
\* object
C34_Witness ==
    /\ out.op = "call_tool"
    /\ out.name = "get_symbol"
    /\ Dispatched(out.name, out.arguments)
    /\ base[IndexPath(Owner, Name)] = Some(Partial)
    /\ ~out.response.raised
    /\ out.response.value[1].text.json = [error |-> ExceptionText]

\* A call without a required argument, and one of a name call_tool does not
\* know, got an error object
C34_MissingArgument ==
    /\ out.op = "call_tool"
    /\ out.name = "search_text"
    /\ "query" \notin DOMAIN out.arguments
    /\ "repo" \in DOMAIN out.arguments
    /\ out.response.value[1].text.json = [error |-> "'query'"]

(***************************************************************************)
(* Properties of discover_local_files (SpecDiscover)                       *)
(***************************************************************************)

\* The patterns of a source of ignore patterns, whether they loaded or not
PatternsOf(source) == IF source = None THEN <<>> ELSE source[1].lines

\* A file discover_local_files must not return: a symlink when symlinks are
\* not followed, a file that does not resolve inside the root, a secret
\* file, a file too large, a file with a null byte in its first bytes
Unsafe(file) ==
    \/ ~out.follow_symlinks /\ file.symlink
    \/ file.resolves # "inside"
    \/ is_secret_file(file.posix)
    \/ file.stat # None /\ file.stat[1] > out.max_size
    \/ file.first_null # None /\ file.first_null[1] < CHECK_SIZE

\* C31: discover_local_files returns no symlink when follow_symlinks is
\* false, no file that resolves outside the root, matches a secret pattern,
\* a .gitignore pattern or an extra ignore pattern, exceeds max_size or has a
\* null byte in its first 8192 bytes; and at most max_files files.
C31_DiscoverSafe ==
    out.op = "discover_local_files" =>
        /\ Len(out.ret.files) <= out.max_files
        /\ \A i \in DOMAIN out.ret.files :
             /\ ~Unsafe(out.ret.files[i])
             /\ ~MatchFile(PatternsOf(out.gitignore), out.ret.files[i].posix)
             /\ ~MatchFile(PatternsOf(out.extra_ignore_patterns), out.ret.files[i].posix)

\* C31 with the ignore patterns that loaded: no such file is returned, and no
\* file matching a pattern of a .gitignore or of an extra list that loaded.
C31_DiscoverSafeOnLoadedPatterns ==
    out.op = "discover_local_files" =>
        /\ Len(out.ret.files) <= out.max_files
        /\ \A i \in DOMAIN out.ret.files :
             /\ ~Unsafe(out.ret.files[i])
             /\ \A source \in {out.gitignore, out.extra_ignore_patterns} :
                  (source # None /\ source[1].loads) =>
                      ~MatchFile(source[1].lines, out.ret.files[i].posix)

\* A walk of which one file was returned and one was not
C31_Filtered ==
    /\ out.op = "discover_local_files"
    /\ Len(out.walk) = 2
    /\ Len(out.ret.files) = 1
    /\ out.max_files = MAX_FILES
    /\ out.gitignore # None

\* A file matching a .gitignore pattern is returned: the .gitignore did not
\* load
C31_IgnoredReturned ==
    /\ out.op = "discover_local_files"
    /\ \E i \in DOMAIN out.ret.files :
         MatchFile(PatternsOf(out.gitignore), out.ret.files[i].posix)

(***************************************************************************)
(* Properties of index_folder (SpecIngest)                                 *)
(***************************************************************************)

\* The files index_folder discovered in the walk of the call, what its loop
\* did with each, and the warnings of the response
FoundFiles ==
    discover_local_files(out.walk, MAX_FILES, DEFAULT_MAX_FILE_SIZE, None, None, FALSE).files
IngestOf(file) == out.ingests[RelPath(file.posix)]
Failed(file) == IngestOf(file).fails # "none"
Yields(file) ==
    ~Failed(file) /\ Parse(RelPath(file.posix), IngestOf(file).content) # <<>>
ResponseWarnings == Get(out.response, "warnings", <<>>)
Named(file) == \E i \in DOMAIN ResponseWarnings : ResponseWarnings[i].path = file.posix

\* The index is saved under success true with the symbols of every file that
\* yields some
SavedWithYielding ==
    /\ out.response.success
    /\ StLoad(Primary).tag = "ok"
    /\ SetOf(StLoad(Primary).index.source_files)
         = {RelPath(FoundFiles[i].posix) : i \in {j \in DOMAIN FoundFiles : Yields(FoundFiles[j])}}
    /\ \A i \in DOMAIN FoundFiles :
         Yields(FoundFiles[i]) =>
            IdsOf(SymbolsOfFile(StLoad(Primary).index.symbols, RelPath(FoundFiles[i].posix)))
              = IdsOf(SymbolDicts(Parse(RelPath(FoundFiles[i].posix),
                                        IngestOf(FoundFiles[i]).content)))

\* C32: when reading or parsing a discovered file fails, the response's
\* warnings name the file, the other files are still parsed, and the index
\* is saved with success true whenever another file yields a symbol.
C32_FailuresAreWarnings ==
    (out.op = "index_folder" /\ out.kind = "dir") =>
        \A i \in DOMAIN FoundFiles :
            Failed(FoundFiles[i]) =>
                /\ Named(FoundFiles[i])
                /\ (\E j \in DOMAIN FoundFiles : Yields(FoundFiles[j])) => SavedWithYielding

\* C32 when another file yields a symbol: the failed file is named in the
\* warnings and the index is saved with the files that yield symbols.
C32_FailuresAreWarningsOnSave ==
    (out.op = "index_folder" /\ out.kind = "dir") =>
        \A i \in DOMAIN FoundFiles :
            (Failed(FoundFiles[i]) /\ \E j \in DOMAIN FoundFiles : Yields(FoundFiles[j])) =>
                Named(FoundFiles[i]) /\ SavedWithYielding

\* One file failed to parse and the other was indexed
C32_OneFailedOneSaved ==
    /\ out.op = "index_folder"
    /\ Len(FoundFiles) = 2
    /\ IngestOf(FoundFiles[1]).fails = "parse"
    /\ Yields(FoundFiles[2])
    /\ out.response.success
    /\ Len(ResponseWarnings) = 2

\* The only file failed to parse: the response is an error without warnings
C32_WarningLost ==
    /\ out.op = "index_folder"
    /\ Len(FoundFiles) = 1
    /\ Failed(FoundFiles[1])
    /\ ~out.response.success
    /\ "warnings" \notin DOMAIN out.response

====
